---- MODULE Spec2Model ----
(***************************************************************************)
(* SimpleLang compiler: lexer -> recursive-descent parser -> AST ->        *)
(* tree-walking code generator.  The repository holds three versions of    *)
(* the pipeline: lexer.cpp (lexer and an early parser), parser.cpp (lexer  *)
(* and parser) and final_cp.cpp (lexer, parser and code generator).  The   *)
(* variable impl says which of the three programs is running.              *)
(*                                                                         *)
(* Text is a sequence of characters, a character a one-letter string.      *)
(***************************************************************************)
EXTENDS Integers, Sequences, FiniteSets, TLC

VARIABLES
    impl,        \* which program runs: "final_cp", "parser" or "lexer"
    source,      \* the statements the input text was written from (<<>>: any text)
    omitted,     \* the terminator left out when writing the text ("" when none)
    input,       \* the source text (content of input.txt)
    lexer,       \* the Lexer object: position, currentChar, state of the stream
    tokens,      \* the tokens returned so far by the driver loop, in order
    current,     \* Parser::current
    program,     \* the statements of the Block that the program loop is building
    ast,         \* the Block the parser returned (Null before it returns)
    error,       \* what() of the exception caught in main ("" when none)
    generator,   \* the CodeGenerator
    next,        \* the number of statements of ast that have been generated
    output,      \* the lines written to output.s (<<>>: not written)
    pc           \* position of main()

vars == <<impl, source, omitted, input, lexer, tokens, current, program, ast,
          error, generator, next, output, pc>>

Impls == {"final_cp", "parser", "lexer"}

(***************************************************************************)
(* Bounds of the model.                                                    *)
(***************************************************************************)
MaxLen == 3

Alphabet == {"i", "f", "n", "t", "1", "=", "!", " ", "@",
             ";", "+", "-", "(", ")", "{", "}"}

\* all texts of at most n characters over Alphabet
TextsUpTo(n) == UNION {[1..k -> Alphabet] : k \in 0..n}

(***************************************************************************)
(* <cctype> in the "C" locale.  NUL is the '\0' that final_cp.cpp's        *)
(* currentChar() returns past the end, EOFCHAR the char that               *)
(* ifstream::get() returns when no character is left.                      *)
(***************************************************************************)
NUL == "NUL"
EOFCHAR == "EOF"

Lower == {"a","b","c","d","e","f","g","h","i","j","k","l","m",
          "n","o","p","q","r","s","t","u","v","w","x","y","z"}
Upper == {"A","B","C","D","E","F","G","H","I","J","K","L","M",
          "N","O","P","Q","R","S","T","U","V","W","X","Y","Z"}
Digit == {"0","1","2","3","4","5","6","7","8","9"}
Space == {" ", "\t", "\n", "\r"}

isspace(c) == c \in Space
isalpha(c) == c \in Lower \cup Upper
isdigit(c) == c \in Digit
isalnum(c) == isalpha(c) \/ isdigit(c)

Token(type, text) == [type |-> type, text |-> text]

\* the keyword test that follows the identifier loop in all three lexers
Word(text) ==
    IF text = <<"i","n","t">> THEN Token("TOKEN_INT", text)
    ELSE IF text = <<"i","f">> THEN Token("TOKEN_IF", text)
    ELSE Token("TOKEN_IDENTIFIER", text)

(***************************************************************************)
(* final_cp.cpp: the Lexer over a string, with a position.                 *)
(***************************************************************************)
currentChar(inp, position) ==
    IF position >= Len(inp) THEN NUL ELSE inp[position + 1]

RECURSIVE skipWhitespace(_, _)
skipWhitespace(inp, position) ==
    IF isspace(currentChar(inp, position))
    THEN skipWhitespace(inp, position + 1)
    ELSE position

\* while (isalnum(currentChar())) { text += currentChar(); advance(); }
RECURSIVE ScanAlnum(_, _, _)
ScanAlnum(inp, position, text) ==
    IF isalnum(currentChar(inp, position))
    THEN ScanAlnum(inp, position + 1, Append(text, currentChar(inp, position)))
    ELSE [text |-> text, position |-> position]

\* while (isdigit(currentChar())) { number += currentChar(); advance(); }
RECURSIVE ScanDigits(_, _, _)
ScanDigits(inp, position, number) ==
    IF isdigit(currentChar(inp, position))
    THEN ScanDigits(inp, position + 1, Append(number, currentChar(inp, position)))
    ELSE [text |-> number, position |-> position]

\* the switch with the character put back: a token that consumes nothing
FinalSwitchUnread(inp, c, position) ==
    [tok |-> Token("TOKEN_UNKNOWN", <<c>>), position |-> position - 1]

\* the switch of final_cp.cpp: c has been read and the position advanced
FinalSwitch(inp, c, position) ==
    IF c = "=" THEN
        IF currentChar(inp, position) = "="
        THEN [tok |-> Token("TOKEN_EQUAL", <<"=", "=">>), position |-> position + 1]
        ELSE [tok |-> Token("TOKEN_ASSIGN", <<"=">>), position |-> position]
    ELSE IF c = "+" THEN [tok |-> Token("TOKEN_PLUS", <<"+">>), position |-> position]
    ELSE IF c = "-" THEN [tok |-> Token("TOKEN_MINUS", <<"-">>), position |-> position]
    ELSE IF c = "(" THEN [tok |-> Token("TOKEN_LPAREN", <<"(">>), position |-> position]
    ELSE IF c = ")" THEN [tok |-> Token("TOKEN_RPAREN", <<")">>), position |-> position]
    ELSE IF c = "{" THEN [tok |-> Token("TOKEN_LBRACE", <<"{">>), position |-> position]
    ELSE IF c = "}" THEN [tok |-> Token("TOKEN_RBRACE", <<"}">>), position |-> position]
    ELSE IF c = ";" THEN [tok |-> Token("TOKEN_SEMICOLON", <<";">>), position |-> position]
    ELSE [tok |-> Token("TOKEN_UNKNOWN", <<c>>), position |-> position]

\* Lexer::getNextToken of final_cp.cpp: the token and the new position
FinalGetNextToken(inp, position) ==
    LET p == skipWhitespace(inp, position) IN
    IF p >= Len(inp) THEN [tok |-> Token("TOKEN_EOF", <<>>), position |-> p]
    ELSE IF isalpha(currentChar(inp, p)) THEN
        LET s == ScanAlnum(inp, p, <<>>) IN
        [tok |-> Word(s.text), position |-> s.position]
    ELSE IF isdigit(currentChar(inp, p)) THEN
        LET s == ScanDigits(inp, p, <<>>) IN
        [tok |-> Token("TOKEN_NUMBER", s.text), position |-> s.position]
    ELSE FinalSwitch(inp, currentChar(inp, p), p + 1)

(***************************************************************************)
(* parser.cpp and lexer.cpp: the Lexer over an ifstream.  A stream state   *)
(* is [position, currentChar, good]: the number of characters read, the    *)
(* lookahead character and whether the stream converts to true.            *)
(***************************************************************************)
\* currentChar = getNextChar(): file.get() fails at the end of the file
getNextChar(inp, st) ==
    IF st.good /\ st.position < Len(inp)
    THEN [position |-> st.position + 1, currentChar |-> inp[st.position + 1],
          good |-> TRUE]
    ELSE [position |-> st.position, currentChar |-> EOFCHAR, good |-> FALSE]

\* while (isalnum(currentChar)) { text += currentChar; currentChar = getNextChar(); }
RECURSIVE FileScanAlnum(_, _, _)
FileScanAlnum(inp, st, text) ==
    IF isalnum(st.currentChar)
    THEN FileScanAlnum(inp, getNextChar(inp, st), Append(text, st.currentChar))
    ELSE [text |-> text, st |-> st]

RECURSIVE FileScanDigits(_, _, _)
FileScanDigits(inp, st, text) ==
    IF isdigit(st.currentChar)
    THEN FileScanDigits(inp, getNextChar(inp, st), Append(text, st.currentChar))
    ELSE [text |-> text, st |-> st]

\* case c: currentChar = getNextChar(); return Token(type, c);
One(inp, st, type) ==
    [tok |-> Token(type, <<st.currentChar>>), st |-> getNextChar(inp, st)]

\* case '=' / case '!': one more character decides the token
Two(inp, st, double, single) ==
    LET n == getNextChar(inp, st) IN
    IF n.currentChar = "="
    THEN [tok |-> Token(double, <<st.currentChar, "=">>), st |-> getNextChar(inp, n)]
    ELSE [tok |-> Token(single, <<st.currentChar>>), st |-> n]

\* the switch of parser.cpp
ParserSwitch(inp, st) ==
    LET c == st.currentChar IN
    IF c = "=" THEN Two(inp, st, "TOKEN_EQUAL", "TOKEN_ASSIGN")
    ELSE IF c = "+" THEN One(inp, st, "TOKEN_PLUS")
    ELSE IF c = "-" THEN One(inp, st, "TOKEN_MINUS")
    ELSE IF c = "!" THEN Two(inp, st, "TOKEN_NOT_EQUAL", "TOKEN_UNKNOWN")
    ELSE IF c = "{" THEN One(inp, st, "TOKEN_LBRACE")
    ELSE IF c = "}" THEN One(inp, st, "TOKEN_RBRACE")
    ELSE IF c = "(" THEN One(inp, st, "TOKEN_LPAREN")
    ELSE IF c = ")" THEN One(inp, st, "TOKEN_RPAREN")
    ELSE IF c = ";" THEN One(inp, st, "TOKEN_SEMICOLON")
    ELSE \* default: invalidChar = currentChar; currentChar = getNextChar();
         One(inp, st, "TOKEN_UNKNOWN")

\* the switch of lexer.cpp: no case '!', the parentheses return the brace
\* kinds, and default reads the next character before building the token
LexerSwitch(inp, st) ==
    LET c == st.currentChar IN
    IF c = "=" THEN Two(inp, st, "TOKEN_EQUAL", "TOKEN_ASSIGN")
    ELSE IF c = "+" THEN One(inp, st, "TOKEN_PLUS")
    ELSE IF c = "-" THEN One(inp, st, "TOKEN_MINUS")
    ELSE IF c = "{" THEN One(inp, st, "TOKEN_LBRACE")
    ELSE IF c = "}" THEN One(inp, st, "TOKEN_RBRACE")
    ELSE IF c = "(" THEN One(inp, st, "TOKEN_LBRACE")
    ELSE IF c = ")" THEN One(inp, st, "TOKEN_RBRACE")
    ELSE IF c = ";" THEN One(inp, st, "TOKEN_SEMICOLON")
    ELSE \* default: currentChar = getNextChar();
         \*          return Token(TOKEN_UNKNOWN, string(1, currentChar));
         LET n == getNextChar(inp, st) IN
         [tok |-> Token("TOKEN_UNKNOWN", <<n.currentChar>>), st |-> n]

\* Lexer::getNextToken of parser.cpp (variant "parser") and of lexer.cpp
\* (variant "lexer"): while (file) { ... } return Token(TOKEN_EOF, "");
RECURSIVE FileGetNextToken(_, _, _)
FileGetNextToken(variant, inp, st) ==
    IF ~st.good THEN [tok |-> Token("TOKEN_EOF", <<>>), st |-> st]
    ELSE IF isspace(st.currentChar)
    THEN FileGetNextToken(variant, inp, getNextChar(inp, st))
    ELSE IF isalpha(st.currentChar) THEN
        LET s == FileScanAlnum(inp, st, <<>>) IN [tok |-> Word(s.text), st |-> s.st]
    ELSE IF isdigit(st.currentChar) THEN
        LET s == FileScanDigits(inp, st, <<>>) IN
        [tok |-> Token("TOKEN_NUMBER", s.text), st |-> s.st]
    ELSE IF variant = "parser" THEN ParserSwitch(inp, st)
    ELSE LexerSwitch(inp, st)

ParserGetNextToken(inp, st) == FileGetNextToken("parser", inp, st)
LexerGetNextToken(inp, st) == FileGetNextToken("lexer", inp, st)

(***************************************************************************)
(* The Lexer object of the running program and one call of getNextToken.   *)
(***************************************************************************)
\* the constructors: position(0), or file.open and currentChar = getNextChar()
NewLexer(variant, inp) ==
    IF variant = "final_cp"
    THEN [position |-> 0, currentChar |-> NUL, good |-> TRUE]
    ELSE getNextChar(inp, [position |-> 0, currentChar |-> NUL, good |-> TRUE])

getNextToken(variant, inp, lx) ==
    IF variant = "final_cp"
    THEN LET r == FinalGetNextToken(inp, lx.position) IN
         [tok |-> r.tok, st |-> [lx EXCEPT !.position = r.position]]
    ELSE IF variant = "parser" THEN ParserGetNextToken(inp, lx)
    ELSE LexerGetNextToken(inp, lx)

(***************************************************************************)
(* The AST.  Null is the null pointer (an absent initializer).             *)
(***************************************************************************)
Null == [kind |-> "null"]
Number(value) == [kind |-> "Number", value |-> value]
Identifier(name) == [kind |-> "Identifier", name |-> name]
BinaryOp(op, left, right) ==
    [kind |-> "BinaryOp", op |-> op, left |-> left, right |-> right]
Assignment(identifier, exp) ==
    [kind |-> "Assignment", identifier |-> identifier, exp |-> exp]
VarDeclaration(type, name, init) ==
    [kind |-> "VarDeclaration", type |-> type, name |-> name, initializer |-> init]
Block(statements) == [kind |-> "Block", statements |-> statements]
If(condition, thenBranch) ==
    [kind |-> "If", condition |-> condition, thenBranch |-> thenBranch]

(***************************************************************************)
(* std::stoi on a text of digits: the value, or std::out_of_range when it  *)
(* does not fit an int.                                                    *)
(***************************************************************************)
INT_MAX == 2147483647

DigitValue(c) ==
    CASE c = "0" -> 0 [] c = "1" -> 1 [] c = "2" -> 2 [] c = "3" -> 3 [] c = "4" -> 4
      [] c = "5" -> 5 [] c = "6" -> 6 [] c = "7" -> 7 [] c = "8" -> 8 [] c = "9" -> 9

RECURSIVE StoiFrom(_, _)
StoiFrom(text, acc) ==
    IF text = <<>> THEN [ok |-> TRUE, value |-> acc]
    ELSE LET d == DigitValue(Head(text)) IN
         IF acc > (INT_MAX - d) \div 10
         THEN [ok |-> FALSE, value |-> 0]
         ELSE StoiFrom(Tail(text), acc * 10 + d)

\* stoi that returns the largest int for a text that does not fit
stoiSaturating(text) ==
    IF StoiFrom(text, 0).ok THEN StoiFrom(text, 0) ELSE [ok |-> TRUE, value |-> INT_MAX]

stoi(text) == StoiFrom(text, 0)

(***************************************************************************)
(* The Parser of final_cp.cpp (variant "final_cp") and of parser.cpp       *)
(* (variant "parser"): the same recursive descent; parser.cpp also takes   *)
(* `!=` in parseEquality, stops the if-body loop at the end of the input   *)
(* and words its messages differently.  The cursor cur counts the      *)
(* tokens consumed.  A parsing function returns Ok(node, cur), or      *)
(* Err(msg, cur) for the exception it throws.                          *)
(***************************************************************************)
Ok(node, cur) == [ok |-> TRUE, node |-> node, current |-> cur, msg |-> ""]
Err(msg, cur) == [ok |-> FALSE, node |-> Null, current |-> cur, msg |-> msg]

\* Parser::error of parser.cpp prefixes the message
Message(variant, text) ==
    IF variant = "parser" THEN "Parse error: " \o text ELSE text

peek(toks, cur) ==
    IF cur >= Len(toks) THEN Token("TOKEN_EOF", <<>>) ELSE toks[cur + 1]

advance(toks, cur) ==
    IF cur >= Len(toks)
    THEN [tok |-> Token("TOKEN_EOF", <<>>), current |-> cur]
    ELSE [tok |-> toks[cur + 1], current |-> cur + 1]

\* match that advances whether or not the type is the one asked for
matchConsuming(toks, cur, type) ==
    [ok |-> peek(toks, cur).type = type, current |-> advance(toks, cur).current]

\* match that steps back when the type is not the one asked for
matchRetreating(toks, cur, type) ==
    IF peek(toks, cur).type = type
    THEN [ok |-> TRUE, current |-> advance(toks, cur).current]
    ELSE [ok |-> FALSE, current |-> cur - 1]

match(toks, cur, type) ==
    IF peek(toks, cur).type = type
    THEN [ok |-> TRUE, current |-> advance(toks, cur).current]
    ELSE [ok |-> FALSE, current |-> cur]

\* a call that throws ends the caller too: the exception passes through;
\* otherwise the caller goes on with the result
Bind(r, Continue(_)) == IF r.ok THEN Continue(r) ELSE r

RECURSIVE parseExpression(_, _, _)
RECURSIVE parseStatement(_, _, _)

parsePrimary(variant, toks, cur) ==
    LET num == match(toks, cur, "TOKEN_NUMBER")
        id  == match(toks, cur, "TOKEN_IDENTIFIER")
        lp  == match(toks, cur, "TOKEN_LPAREN")
    IN  IF num.ok THEN
            LET v == stoi(toks[num.current].text) IN
            IF v.ok THEN Ok(Number(v.value), num.current) ELSE Err("stoi", num.current)
        ELSE IF id.ok THEN Ok(Identifier(toks[id.current].text), id.current)
        ELSE IF lp.ok THEN
            Bind(parseExpression(variant, toks, lp.current), LAMBDA expr :
                 LET rp == match(toks, expr.current, "TOKEN_RPAREN") IN
                 IF ~rp.ok THEN Err(Message(variant, "Expected ')'"), rp.current)
                 ELSE Ok(expr.node, rp.current))
        ELSE Err(Message(variant, "Expected expression"), cur)

\* while (peek() is + or -) { op = advance().text; right = parsePrimary(); ... }
RECURSIVE AdditiveLoop(_, _, _, _)
AdditiveLoop(variant, toks, left, cur) ==
    IF peek(toks, cur).type \in {"TOKEN_PLUS", "TOKEN_MINUS"}
    THEN LET op == advance(toks, cur) IN
         Bind(parsePrimary(variant, toks, op.current), LAMBDA right :
              AdditiveLoop(variant, toks,
                           BinaryOp(op.tok.text, left, right.node), right.current))
    ELSE Ok(left, cur)

parseAdditive(variant, toks, cur) ==
    Bind(parsePrimary(variant, toks, cur), LAMBDA left :
         AdditiveLoop(variant, toks, left.node, left.current))

\* the equality loop taking an unrecognized character for an operator
EqualityOpsWithUnknown(variant) ==
    IF variant = "parser" THEN {"TOKEN_EQUAL", "TOKEN_NOT_EQUAL", "TOKEN_UNKNOWN"}
    ELSE {"TOKEN_EQUAL", "TOKEN_UNKNOWN"}

\* the operators of the equality loop
EqualityOps(variant) ==
    IF variant = "parser" THEN {"TOKEN_EQUAL", "TOKEN_NOT_EQUAL"} ELSE {"TOKEN_EQUAL"}

RECURSIVE EqualityLoop(_, _, _, _)
EqualityLoop(variant, toks, left, cur) ==
    IF peek(toks, cur).type \in EqualityOps(variant)
    THEN LET op == advance(toks, cur) IN
         Bind(parseAdditive(variant, toks, op.current), LAMBDA right :
              EqualityLoop(variant, toks,
                           BinaryOp(op.tok.text, left, right.node), right.current))
    ELSE Ok(left, cur)

parseEquality(variant, toks, cur) ==
    Bind(parseAdditive(variant, toks, cur), LAMBDA left :
         EqualityLoop(variant, toks, left.node, left.current))

parseExpression(variant, toks, cur) == parseEquality(variant, toks, cur)

\* called after `int` has been matched
parseVarDeclaration(variant, toks, cur) ==
    LET id == match(toks, cur, "TOKEN_IDENTIFIER") IN
    IF ~id.ok THEN Err(Message(variant, "Expected identifier after 'int'"), id.current)
    ELSE
    LET name == toks[id.current].text
        eq   == match(toks, id.current, "TOKEN_ASSIGN")
    IN  Bind(IF eq.ok THEN parseExpression(variant, toks, eq.current)
             ELSE Ok(Null, eq.current), LAMBDA init :
             LET semi == match(toks, init.current, "TOKEN_SEMICOLON") IN
             IF ~semi.ok
             THEN Err(IF variant = "parser"
                      THEN Message(variant, "Expected ';' after declaration")
                      ELSE "Expected ';'", semi.current)
             ELSE Ok(VarDeclaration(<<"i","n","t">>, name, init.node), semi.current))

\* final_cp.cpp: parseAssignment; parser.cpp: parseAssignmentStatement and
\* parseAssignment.  Called with an identifier as the current token.
parseAssignment(variant, toks, cur) ==
    LET id == advance(toks, cur)
        eq == match(toks, id.current, "TOKEN_ASSIGN")
    IN  IF ~eq.ok
        THEN Err(IF variant = "parser"
                 THEN Message(variant, "Expected '=' after identifier")
                 ELSE "Expected '='", eq.current)
        ELSE
        Bind(parseExpression(variant, toks, eq.current), LAMBDA value :
             LET semi == match(toks, value.current, "TOKEN_SEMICOLON") IN
             IF ~semi.ok
             THEN Err(IF variant = "parser"
                      THEN Message(variant, "Expected ';' after assignment")
                      ELSE "Expected ';'", semi.current)
             ELSE Ok(Assignment(id.tok.text, value.node), semi.current))

\* final_cp.cpp: while (!match(RBRACE)) body->addStatement(parseStatement());
\* parser.cpp:   while (!match(RBRACE) && peek().type != TOKEN_EOF) ...
RECURSIVE IfBodyLoop(_, _, _, _)
IfBodyLoop(variant, toks, statements, cur) ==
    LET rb == match(toks, cur, "TOKEN_RBRACE") IN
    IF rb.ok THEN Ok(Block(statements), rb.current)
    ELSE IF variant = "parser" /\ peek(toks, cur).type = "TOKEN_EOF"
    THEN Ok(Block(statements), cur)
    ELSE Bind(parseStatement(variant, toks, cur), LAMBDA stmt :
              IfBodyLoop(variant, toks, Append(statements, stmt.node), stmt.current))

\* the rest of parseIf once the condition has been parsed
IfAfterCondition(variant, toks, condition) ==
    LET rp == match(toks, condition.current, "TOKEN_RPAREN")
        lb == match(toks, rp.current, "TOKEN_LBRACE")
    IN  IF ~rp.ok THEN Err(Message(variant, "Expected ')'"), rp.current)
        ELSE IF ~lb.ok THEN Err(Message(variant, "Expected '{'"), lb.current)
        ELSE Bind(IfBodyLoop(variant, toks, <<>>, lb.current), LAMBDA body :
                  Ok(If(condition.node, body.node), body.current))

\* called after `if` has been matched
parseIf(variant, toks, cur) ==
    LET lp == match(toks, cur, "TOKEN_LPAREN") IN
    IF ~lp.ok
    THEN Err(IF variant = "parser" THEN Message(variant, "Expected '(' after 'if'")
             ELSE "Expected '('", lp.current)
    ELSE Bind(parseExpression(variant, toks, lp.current), LAMBDA condition :
              IfAfterCondition(variant, toks, condition))

parseStatement(variant, toks, cur) ==
    LET int == match(toks, cur, "TOKEN_INT")
        if  == match(toks, cur, "TOKEN_IF")
    IN  IF int.ok THEN parseVarDeclaration(variant, toks, int.current)
        ELSE IF if.ok THEN parseIf(variant, toks, if.current)
        ELSE IF peek(toks, cur).type = "TOKEN_IDENTIFIER"
        THEN parseAssignment(variant, toks, cur)
        ELSE Err(Message(variant, "Expected statement"), cur)

(***************************************************************************)
(* The Parser of lexer.cpp (names prefixed Early): no precedence levels,   *)
(* no parentheses, a declaration needs an initializer, an assignment takes *)
(* no `;`, and peek and advance do not test the cursor against the size of *)
(* the list.  Its messages are prefixed "syntax error" without a space.    *)
(***************************************************************************)
EarlyError(message, cur) == Err("syntax error" \o message, cur)

\* tokens[cur]: reading past the end is undefined; OutOfBounds stands
\* for whatever is read there
OutOfBounds == Token("OUT_OF_BOUNDS", <<>>)

EarlyPeek(toks, cur) ==
    IF cur >= Len(toks) THEN OutOfBounds ELSE toks[cur + 1]

EarlyMatch(toks, cur, type) ==
    IF EarlyPeek(toks, cur).type = type
    THEN [ok |-> TRUE, current |-> cur + 1]
    ELSE [ok |-> FALSE, current |-> cur]

EarlyParsePrimary(toks, cur) ==
    LET num == EarlyMatch(toks, cur, "TOKEN_NUMBER")
        id  == EarlyMatch(toks, cur, "TOKEN_IDENTIFIER")
    IN  IF num.ok THEN
            LET v == stoi(toks[num.current].text) IN
            IF v.ok THEN Ok(Number(v.value), num.current) ELSE Err("stoi", num.current)
        ELSE IF id.ok THEN Ok(Identifier(toks[id.current].text), id.current)
        ELSE EarlyError("expected number or identifier", cur)

\* while (match(PLUS) || match(MINUS) || match(EQUAL)) {
\*     op = tokens[current - 1].text; right = parsePrimary(); ... }
RECURSIVE EarlyExpressionLoop(_, _, _)
EarlyExpressionLoop(toks, left, cur) ==
    IF EarlyPeek(toks, cur).type \in {"TOKEN_PLUS", "TOKEN_MINUS", "TOKEN_EQUAL"}
    THEN Bind(EarlyParsePrimary(toks, cur + 1), LAMBDA right :
              EarlyExpressionLoop(toks, BinaryOp(toks[cur + 1].text, left, right.node),
                                  right.current))
    ELSE Ok(left, cur)

EarlyParseExpression(toks, cur) ==
    Bind(EarlyParsePrimary(toks, cur), LAMBDA left :
         EarlyExpressionLoop(toks, left.node, left.current))

EarlyParseAssignment(toks, cur) ==
    LET id == EarlyMatch(toks, cur, "TOKEN_IDENTIFIER")
        eq == EarlyMatch(toks, id.current, "TOKEN_ASSIGN")
    IN  IF ~id.ok THEN EarlyError("Expected an identifier", id.current)
        ELSE IF ~eq.ok THEN EarlyError("Expected '=' after identifier", eq.current)
        ELSE Bind(EarlyParseExpression(toks, eq.current), LAMBDA expression :
                  Ok(Assignment(toks[id.current].text, expression.node),
                     expression.current))

\* called after `int` has been matched
EarlyParseVarDeclaration(toks, cur) ==
    LET id == EarlyMatch(toks, cur, "TOKEN_IDENTIFIER")
        eq == EarlyMatch(toks, id.current, "TOKEN_ASSIGN")
    IN  IF ~id.ok THEN EarlyError("Expected identifier after 'int'", id.current)
        ELSE IF ~eq.ok THEN EarlyError("Expected '=' after identifier", eq.current)
        ELSE Bind(EarlyParseExpression(toks, eq.current), LAMBDA init :
                  LET semi == EarlyMatch(toks, init.current, "TOKEN_SEMICOLON") IN
                  IF ~semi.ok
                  THEN EarlyError("Expected ';' after declaration", semi.current)
                  ELSE Ok(VarDeclaration(<<"i","n","t">>, toks[id.current].text,
                                         init.node), semi.current))

RECURSIVE EarlyParseStatement(_, _)

\* while (!match(RBRACE)) body->addStatement(parseStatement());
RECURSIVE EarlyIfBodyLoop(_, _, _)
EarlyIfBodyLoop(toks, statements, cur) ==
    LET rb == EarlyMatch(toks, cur, "TOKEN_RBRACE") IN
    IF rb.ok THEN Ok(Block(statements), rb.current)
    ELSE Bind(EarlyParseStatement(toks, cur), LAMBDA stmt :
              EarlyIfBodyLoop(toks, Append(statements, stmt.node), stmt.current))

\* the rest of parseIf once the condition has been parsed
EarlyIfAfterCondition(toks, condition) ==
    LET rp == EarlyMatch(toks, condition.current, "TOKEN_RPAREN")
        lb == EarlyMatch(toks, rp.current, "TOKEN_LBRACE")
    IN  IF ~rp.ok THEN EarlyError("Expected ')' after condition", rp.current)
        ELSE IF ~lb.ok THEN EarlyError("Expected '{' after if condition", lb.current)
        ELSE Bind(EarlyIfBodyLoop(toks, <<>>, lb.current), LAMBDA body :
                  Ok(If(condition.node, body.node), body.current))

\* called after `if` has been matched
EarlyParseIf(toks, cur) ==
    LET lp == EarlyMatch(toks, cur, "TOKEN_LPAREN") IN
    IF ~lp.ok THEN EarlyError("Expected '(' after if", lp.current)
    ELSE Bind(EarlyParseExpression(toks, lp.current), LAMBDA condition :
              EarlyIfAfterCondition(toks, condition))

\* match(IDENTIFIER) consumes the identifier before parseAssignment looks
\* for one
EarlyParseStatement(toks, cur) ==
    LET int == EarlyMatch(toks, cur, "TOKEN_INT")
        if  == EarlyMatch(toks, cur, "TOKEN_IF")
        id  == EarlyMatch(toks, cur, "TOKEN_IDENTIFIER")
    IN  IF int.ok THEN EarlyParseVarDeclaration(toks, int.current)
        ELSE IF if.ok THEN EarlyParseIf(toks, if.current)
        ELSE IF id.ok THEN EarlyParseAssignment(toks, id.current)
        ELSE EarlyError("Expected statement", cur)

\* Parser::parse of lexer.cpp: one statement, an if or an assignment
EarlyParse(toks, cur) ==
    LET if == EarlyMatch(toks, cur, "TOKEN_IF")
        id == EarlyMatch(toks, cur, "TOKEN_IDENTIFIER")
    IN  IF if.ok THEN EarlyParseIf(toks, if.current)
        ELSE IF id.ok THEN EarlyParseAssignment(toks, id.current)
        ELSE EarlyError("Unexpected token", cur)

(***************************************************************************)
(* The CodeGenerator of final_cp.cpp.  A line of assemblyCode is           *)
(* Line(op, a, b, c): the mnemonic or directive and the texts of its       *)
(* operands, written as the generator concatenates them.                   *)
(***************************************************************************)
Line(op, a, b, c) == [op |-> op, a |-> a, b |-> b, c |-> c]

\* std::to_string of an int
RECURSIVE Digits(_)
Digits(n) ==
    LET d == <<"0","1","2","3","4","5","6","7","8","9">>[(n % 10) + 1] IN
    IF n < 10 THEN <<d>> ELSE Append(Digits(n \div 10), d)

to_string(n) == IF n < 0 THEN <<"-">> \o Digits(0 - n) ELSE Digits(n)

\* CodeGenerator generator; as constructed in main
NewGenerator ==
    [registerCount |-> 0, labelCount |-> 0, assemblyCode |-> <<>>, variables |-> <<>>]

\* map<string, string> variables, kept as the sequence of its (key, value)
\* pairs; find and operator[] look a key up
HasVariable(g, name) == \E i \in 1..Len(g.variables) : g.variables[i][1] = name
VariableAt(g, name) ==
    g.variables[CHOOSE i \in 1..Len(g.variables) : g.variables[i][1] = name][2]

emit(g, code) == [g EXCEPT !.assemblyCode = Append(@, code)]

\* getNewRegister without the increment
getNewRegisterStuck(g) == [g |-> g, name |-> <<"R">> \o to_string(g.registerCount)]

getNewRegister(g) ==
    [g |-> [g EXCEPT !.registerCount = @ + 1],
     name |-> <<"R">> \o to_string(g.registerCount)]

\* getNewLabel without the increment
getNewLabelStuck(g) == [g |-> g, name |-> <<"L">> \o to_string(g.labelCount)]

getNewLabel(g) ==
    [g |-> [g EXCEPT !.labelCount = @ + 1],
     name |-> <<"L">> \o to_string(g.labelCount)]

\* declareVariable without the lookup
declareVariableAgain(g, name) ==
    emit([g EXCEPT !.variables = Append(@, <<name, name>>)],
         Line(".word", name, <<"0">>, <<>>))

\* declareVariable that puts the slot line in front of the code
declareVariableInFront(g, name) ==
    IF ~HasVariable(g, name)
    THEN [g EXCEPT !.variables = Append(@, <<name, name>>),
                   !.assemblyCode = <<Line(".word", name, <<"0">>, <<>>)>> \o @]
    ELSE g

\* emit(name + ": .word 0")
declareVariable(g, name) ==
    IF ~HasVariable(g, name)
    THEN emit([g EXCEPT !.variables = Append(@, <<name, name>>)],
              Line(".word", name, <<"0">>, <<>>))
    ELSE g

\* getVariableLocation without the declaration of an unknown name
getVariableLocationUndeclared(g, name) == [g |-> g, location |-> name]

getVariableLocation(g, name) ==
    LET d == IF ~HasVariable(g, name) THEN declareVariable(g, name) ELSE g IN
    [g |-> d, location |-> VariableAt(d, name)]

generatePrelude(g) == emit(g, Line(".section .data", <<>>, <<>>, <<>>))

generatePostlude(g) ==
    emit(emit(emit(g, Line(".section .text", <<>>, <<>>, <<>>)),
              Line(".global _start", <<>>, <<>>, <<>>)),
         Line("_start:", <<>>, <<>>, <<>>))

generateEpilogue(g) ==
    emit(emit(emit(g, Line("MOV", <<"R","7">>, <<"#","1">>, <<>>)),
              Line("MOV", <<"R","0">>, <<"#","0">>, <<>>)),
         Line("SWI", <<"0">>, <<>>, <<>>))

Mem(location) == <<"[">> \o location \o <<"]">>

\* BinaryOp with the operands of the instruction in the other order
BinaryOpCodeSwapped(g, op, resultReg, leftReg, rightReg) ==
    IF op = <<"+">> THEN emit(g, Line("ADD", resultReg, rightReg, leftReg))
    ELSE IF op = <<"-">> THEN emit(g, Line("SUB", resultReg, rightReg, leftReg))
    ELSE IF op = <<"=", "=">> THEN
        emit(emit(emit(g, Line("CMP", rightReg, leftReg, <<>>)),
                  Line("MOV", resultReg, <<"#","0">>, <<>>)),
             Line("MOVEQ", resultReg, <<"#","1">>, <<>>))
    ELSE g

\* the instructions BinaryOp emits once both operands are in registers
BinaryOpCode(g, op, resultReg, leftReg, rightReg) ==
    IF op = <<"+">> THEN emit(g, Line("ADD", resultReg, leftReg, rightReg))
    ELSE IF op = <<"-">> THEN emit(g, Line("SUB", resultReg, leftReg, rightReg))
    ELSE IF op = <<"=", "=">> THEN
        emit(emit(emit(g, Line("CMP", leftReg, rightReg, <<>>)),
                  Line("MOV", resultReg, <<"#","0">>, <<>>)),
             Line("MOVEQ", resultReg, <<"#","1">>, <<>>))
    ELSE g

\* the branch taken on the other outcome of the condition
IfBranchInverted(g, condReg, endLabel) ==
    emit(emit(g, Line("CMP", condReg, <<"#","0">>, <<>>)),
         Line("BNE", endLabel, <<>>, <<>>))

\* the branch emitted before the comparison
IfBranchReordered(g, condReg, endLabel) ==
    emit(emit(g, Line("BNE", endLabel, <<>>, <<>>)),
         Line("CMP", condReg, <<"#","1">>, <<>>))

\* the branch If emits between the condition and the body
IfBranch(g, condReg, endLabel) ==
    emit(emit(g, Line("CMP", condReg, <<"#","1">>, <<>>)),
         Line("BNE", endLabel, <<>>, <<>>))

\* one statement of the code after the other: the value of the first is
\* computed before the rest is entered
After(value, Continue(_)) == CHOOSE r \in {Continue(v) : v \in {value}} : TRUE

\* generateAssembly of every node class: the generator afterwards and the
\* register returned ("" for a statement)
RECURSIVE generateAssembly(_, _)
RECURSIVE BlockLoop(_, _)
RECURSIVE BlockLoopBackwards(_, _)

\* the loop of Block taking the statements from the last to the first
BlockLoopBackwards(statements, g) ==
    IF statements = <<>> THEN g
    ELSE After(BlockLoopBackwards(Tail(statements), g),
               LAMBDA rest : generateAssembly(Head(statements), rest).g)

\* for (auto stmt : statements) stmt->generateAssembly(generator);
BlockLoop(statements, g) ==
    IF statements = <<>> THEN g
    ELSE After(generateAssembly(Head(statements), g),
               LAMBDA stmt : BlockLoop(Tail(statements), stmt.g))

generateAssembly(node, g) ==
    CASE node.kind = "Number" ->
            LET reg == getNewRegister(g) IN
            [g |-> emit(reg.g, Line("MOV", reg.name,
                                    <<"#">> \o to_string(node.value), <<>>)),
             reg |-> reg.name]
      [] node.kind = "Identifier" ->
            LET reg == getNewRegister(g)
                loc == getVariableLocation(reg.g, node.name)
            IN  [g |-> emit(loc.g, Line("LDR", reg.name, Mem(loc.location), <<>>)),
                 reg |-> reg.name]
      [] node.kind = "BinaryOp" ->
            After(generateAssembly(node.left, g), LAMBDA left :
            After(generateAssembly(node.right, left.g), LAMBDA right :
            LET res == getNewRegister(right.g)
            IN  [g |-> BinaryOpCode(res.g, node.op, res.name, left.reg, right.reg),
                 reg |-> res.name]))
      [] node.kind = "Assignment" ->
            After(generateAssembly(node.exp, g), LAMBDA value :
            LET loc == getVariableLocation(value.g, node.identifier)
            IN  [g |-> emit(loc.g, Line("STR", value.reg, Mem(loc.location), <<>>)),
                 reg |-> <<>>])
      [] node.kind = "VarDeclaration" ->
            After(declareVariable(g, node.name), LAMBDA d :
            IF node.initializer # Null
            THEN After(generateAssembly(node.initializer, d), LAMBDA value :
                 LET loc == getVariableLocation(value.g, node.name)
                 IN  [g |-> emit(loc.g, Line("STR", value.reg, Mem(loc.location), <<>>)),
                      reg |-> <<>>])
            ELSE [g |-> d, reg |-> <<>>])
      [] node.kind = "Block" ->
            [g |-> BlockLoop(node.statements, g), reg |-> <<>>]
      [] node.kind = "If" ->
            After(generateAssembly(node.condition, g), LAMBDA cond :
            After(getNewLabel(cond.g), LAMBDA label :
            After(IfBranch(label.g, cond.reg, label.name), LAMBDA branch :
            After(generateAssembly(node.thenBranch, branch), LAMBDA body :
            [g |-> emit(body.g, Line("label", label.name, <<>>, <<>>)),
             reg |-> <<>>]))))

(***************************************************************************)
(* Source programs.  A program is written as a sequence of statements,     *)
(* each a tree; Words spells it out, one word per token, and Text joins    *)
(* the words with single spaces.  An expression is written without         *)
(* parentheses except around a right operand that is itself an operation,  *)
(* so that reading it from left to right gives back the tree.              *)
(***************************************************************************)
SNum(v) == [k |-> "num", v |-> v]
SVar(n) == [k |-> "var", n |-> n]
SBin(op, l, r) == [k |-> "bin", op |-> op, l |-> l, r |-> r]
SNone == [k |-> "none"]
SDecl(n, init) == [k |-> "decl", n |-> n, init |-> init]
SAssign(n, e) == [k |-> "assign", n |-> n, e |-> e]
SIf(l, r, body) == [k |-> "if", l |-> l, r |-> r, body |-> body]

va == <<"a">>
vb == <<"b">>
vc == <<"c">>

RECURSIVE ExprWords(_)
ExprWords(e) ==
    CASE e.k = "num" -> <<to_string(e.v)>>
      [] e.k = "var" -> <<e.n>>
      [] e.k = "bin" ->
            ExprWords(e.l) \o <<e.op>> \o
            (IF e.r.k = "bin" THEN <<<<"(">>>> \o ExprWords(e.r) \o <<<<")">>>>
             ELSE ExprWords(e.r))

RECURSIVE StmtWords(_)
RECURSIVE Words(_)
StmtWords(s) ==
    CASE s.k = "decl" ->
            <<<<"i","n","t">>, s.n>> \o
            (IF s.init = SNone THEN <<>> ELSE <<<<"=">>>> \o ExprWords(s.init)) \o
            <<<<";">>>>
      [] s.k = "assign" -> <<s.n, <<"=">>>> \o ExprWords(s.e) \o <<<<";">>>>
      [] s.k = "if" ->
            <<<<"i","f">>, <<"(">>>> \o ExprWords(s.l) \o <<<<"=","=">>>> \o
            ExprWords(s.r) \o <<<<")">>, <<"{">>>> \o Words(s.body) \o <<<<"}">>>>

Words(stmts) == IF stmts = <<>> THEN <<>> ELSE StmtWords(Head(stmts)) \o Words(Tail(stmts))

RECURSIVE Text(_)
Text(words) ==
    IF words = <<>> THEN <<>>
    ELSE IF Len(words) = 1 THEN Head(words)
    ELSE LET half == Len(words) \div 2 IN
         Text(SubSeq(words, 1, half)) \o <<" ">> \o
         Text(SubSeq(words, half + 1, Len(words)))

\* words without the word at place i
Without(words, i) == SubSeq(words, 1, i - 1) \o SubSeq(words, i + 1, Len(words))

Terminators == {<<";">>, <<")">>, <<"}">>}

\* the statements programs are made of
Inc == SAssign(va, SBin(<<"+">>, SVar(va), SNum(1)))

SimpleStmts ==
    { SDecl(va, SNone),
      SDecl(vb, SBin(<<"+">>, SVar(va), SNum(1))),
      SAssign(va, SNum(3)),
      SAssign(vb, SBin(<<"+">>, SVar(va), SNum(4))),
      SAssign(vc, SBin(<<"-">>, SBin(<<"-">>, SVar(vb),
                                     SBin(<<"-">>, SVar(va), SNum(1))), SNum(2))) }

Conditions ==
    { <<SVar(va), SVar(vb)>>, <<SVar(vb), SBin(<<"+">>, SVar(va), SNum(4))>> }

Bodies ==
    { <<>>, <<Inc>>, <<SDecl(vc, SNone), Inc>>,
      <<SIf(SVar(va), SNum(1), <<SAssign(vb, SNum(5))>>)>> }

IfStmts == { SIf(c[1], c[2], body) : c \in Conditions, body \in Bodies }

Stmts == SimpleStmts \cup IfStmts

\* the example programs of the documentation
ExampleArith ==
    << SDecl(va, SNone), SAssign(va, SNum(3)),
       SDecl(vb, SNone), SAssign(vb, SBin(<<"+">>, SVar(va), SNum(4))),
       SDecl(vc, SNone), SAssign(vc, SBin(<<"-">>, SVar(vb), SNum(2))) >>

ExampleIf(n) ==
    << SDecl(va, SNone), SAssign(va, SNum(5)),
       SDecl(vb, SNone), SAssign(vb, SNum(n)),
       SIf(SVar(va), SVar(vb), <<Inc>>) >>

Examples == {ExampleArith, ExampleIf(5), ExampleIf(3)}

MaxStmts == 2

Programs == (UNION {[1..k -> Stmts] : k \in 0..MaxStmts}) \cup Examples

(***************************************************************************)
(* main().  The driver loop: do { token = lexer.getNextToken();            *)
(* tokens.push_back(token); } while (token.type != TOKEN_EOF).  lexer.cpp  *)
(* prints each token instead of keeping it (tokens is then the printed     *)
(* sequence) and returns.                                                  *)
(***************************************************************************)
Tokenize ==
    /\ pc = "lex"
    /\ LET r == getNextToken(impl, input, lexer) IN
        /\ lexer' = r.st
        /\ tokens' = Append(tokens, r.tok)
        /\ pc' = IF r.tok.type # "TOKEN_EOF" THEN "lex"
                 ELSE IF impl = "lexer" THEN "done" ELSE "parse"
    /\ UNCHANGED <<impl, source, omitted, input, current, program, ast, error,
                   generator, next, output>>

\* one turn of the program loop of Parser::parse (final_cp.cpp) and of
\* Parser::parseProgram (parser.cpp); an exception ends main in its catch
ParseStatement ==
    /\ pc = "parse"
    /\ impl \in {"final_cp", "parser"}
    /\ peek(tokens, current).type # "TOKEN_EOF"
    /\ LET r == parseStatement(impl, tokens, current) IN
        /\ current' = r.current
        /\ IF r.ok
           THEN /\ program' = Append(program, r.node)
                /\ UNCHANGED <<error, pc>>
           ELSE /\ program' = IF impl = "parser" THEN <<>> ELSE program
                /\ error' = r.msg
                /\ pc' = "failed"
    /\ UNCHANGED <<impl, source, omitted, input, lexer, tokens, ast, generator,
                   next, output>>

\* the program loop ends at TOKEN_EOF: return program
ParseReturn ==
    /\ pc = "parse"
    /\ impl \in {"final_cp", "parser"}
    /\ peek(tokens, current).type = "TOKEN_EOF"
    /\ ast' = Block(program)
    /\ pc' = IF impl = "final_cp" THEN "prelude" ELSE "done"
    /\ UNCHANGED <<impl, source, omitted, input, lexer, tokens, current, program,
                   error, generator, next, output>>

\* Parser::parse of lexer.cpp, called on a token list
EarlyParseCall ==
    /\ pc = "parse"
    /\ impl = "lexer"
    /\ LET r == EarlyParse(tokens, current) IN
        /\ current' = r.current
        /\ IF r.ok
           THEN ast' = r.node /\ pc' = "done" /\ UNCHANGED error
           ELSE error' = r.msg /\ pc' = "failed" /\ UNCHANGED ast
    /\ UNCHANGED <<impl, source, omitted, input, lexer, tokens, program, generator,
                   next, output>>

GeneratePrelude ==
    /\ pc = "prelude"
    /\ generator' = generatePrelude(generator)
    /\ pc' = "postlude"
    /\ UNCHANGED <<impl, source, omitted, input, lexer, tokens, current, program,
                   ast, error, next, output>>

GeneratePostlude ==
    /\ pc = "postlude"
    /\ generator' = generatePostlude(generator)
    /\ pc' = "body"
    /\ UNCHANGED <<impl, source, omitted, input, lexer, tokens, current, program,
                   ast, error, next, output>>

\* one turn of the loop of Block::generateAssembly on the program
GenerateStatement ==
    /\ pc = "body"
    /\ next < Len(ast.statements)
    /\ generator' = generateAssembly(ast.statements[next + 1], generator).g
    /\ next' = next + 1
    /\ UNCHANGED <<impl, source, omitted, input, lexer, tokens, current, program,
                   ast, error, output, pc>>

GenerateEpilogue ==
    /\ pc = "body"
    /\ next = Len(ast.statements)
    /\ generator' = generateEpilogue(generator)
    /\ pc' = "write"
    /\ UNCHANGED <<impl, source, omitted, input, lexer, tokens, current, program,
                   ast, error, next, output>>

\* output << generator.getCurrentCode(); return 0
WriteOutput ==
    /\ pc = "write"
    /\ output' = generator.assemblyCode
    /\ pc' = "done"
    /\ UNCHANGED <<impl, source, omitted, input, lexer, tokens, current, program,
                   ast, error, generator, next>>

\* what every run starts from, but for the text and the lexer on it
Fresh ==
    /\ impl \in Impls
    /\ current = 0
    /\ program = <<>>
    /\ ast = Null
    /\ error = ""
    /\ generator = NewGenerator
    /\ next = 0
    /\ output = <<>>

(***************************************************************************)
(* Spec: the three programs on the well-formed programs.                   *)
(***************************************************************************)
Init ==
    /\ Fresh
    /\ source \in Programs
    /\ omitted = ""
    /\ input = Text(Words(source))
    /\ lexer = NewLexer(impl, input)
    /\ tokens = <<>>
    /\ pc = "lex"

Next ==
    \/ Tokenize
    \/ ParseStatement
    \/ ParseReturn
    \/ GeneratePrelude
    \/ GeneratePostlude
    \/ GenerateStatement
    \/ GenerateEpilogue
    \/ WriteOutput

Spec == Init /\ [][Next]_vars

(***************************************************************************)
(* SpecLex: the three lexers on every text of at most MaxLen characters.   *)
(***************************************************************************)
InitLex ==
    /\ Fresh
    /\ source = <<>>
    /\ omitted = ""
    /\ input \in TextsUpTo(MaxLen)
    /\ lexer = NewLexer(impl, input)
    /\ tokens = <<>>
    /\ pc = "lex"

NextLex == Tokenize

SpecLex == InitLex /\ [][NextLex]_vars

(***************************************************************************)
(* SpecParse: the three parsers on the tokens of the well-formed programs  *)
(* and, for the parsers of final_cp.cpp and parser.cpp, of the same        *)
(* programs with one terminator left out.  It starts where the driver loop *)
(* has ended.                                                              *)
(***************************************************************************)
\* the driver loop run to its end: the tokens and the lexer after it
RECURSIVE DriverLoop(_, _, _, _)
DriverLoop(variant, inp, lx, toks) ==
    LET r == getNextToken(variant, inp, lx)
        pushed == Append(toks, r.tok)
    IN  IF pushed[Len(pushed)].type = "TOKEN_EOF"
        THEN [tokens |-> pushed, lexer |-> r.st]
        ELSE DriverLoop(variant, inp, r.st, pushed)

InitParse ==
    /\ Fresh
    /\ source \in Programs
    /\ \E i \in 0..Len(Words(source)) :
        /\ i > 0 => (Words(source)[i] \in Terminators /\ impl # "lexer")
        /\ omitted = IF i = 0 THEN "" ELSE Words(source)[i][1]
        /\ input = Text(IF i = 0 THEN Words(source) ELSE Without(Words(source), i))
    /\ \E r \in {DriverLoop(impl, input, NewLexer(impl, input), <<>>)} :
        lexer = r.lexer /\ tokens = r.tokens
    /\ pc = "parse"

NextParse ==
    \/ ParseStatement
    \/ ParseReturn
    \/ EarlyParseCall
    \/ GeneratePrelude
    \/ GeneratePostlude
    \/ GenerateStatement
    \/ GenerateEpilogue
    \/ WriteOutput

SpecParse == InitParse /\ [][NextParse]_vars

(***************************************************************************)
(* The register machine the output is written for: what each instruction   *)
(* of the vocabulary does.  Registers and the Z flag start undefined, every*)
(* data slot starts at 0; section headers, slot lines and label lines do   *)
(* nothing; a branch goes to the label line of that name.                  *)
(***************************************************************************)
SlotNames(code) == {code[i].a : i \in {j \in 1..Len(code) : code[j].op = ".word"}}

IsImmediate(operand) == operand # <<>> /\ Head(operand) = "#"
Immediate(operand) == stoi(Tail(operand)).value
Address(operand) == SubSeq(operand, 2, Len(operand) - 1)

Boot(code) ==
    [at |-> 1, regs |-> [r \in {} |-> 0], mem |-> [n \in SlotNames(code) |-> 0],
     flags |-> "undefined", state |-> "running"]

Set(f, key, value) == [x \in DOMAIN f \cup {key} |-> IF x = key THEN value ELSE f[x]]

Fault(m) == [m EXCEPT !.state = "fault"]
Forward(m) == [m EXCEPT !.at = @ + 1]

LabelLines(code, name) == {i \in 1..Len(code) : code[i].op = "label" /\ code[i].a = name}

\* one instruction
Execute(code, m) ==
    LET ln == code[m.at]
        known(r) == r \in DOMAIN m.regs
    IN  CASE ln.op = "MOV" -> Forward([m EXCEPT !.regs = Set(@, ln.a, Immediate(ln.b))])
          [] ln.op = "MOVEQ" ->
                IF m.flags = "undefined" THEN Fault(m)
                ELSE IF m.flags = "eq"
                THEN Forward([m EXCEPT !.regs = Set(@, ln.a, Immediate(ln.b))])
                ELSE Forward(m)
          [] ln.op = "LDR" ->
                IF Address(ln.b) \notin DOMAIN m.mem THEN Fault(m)
                ELSE Forward([m EXCEPT !.regs = Set(@, ln.a, m.mem[Address(ln.b)])])
          [] ln.op = "STR" ->
                IF Address(ln.b) \notin DOMAIN m.mem \/ ~known(ln.a) THEN Fault(m)
                ELSE Forward([m EXCEPT !.mem[Address(ln.b)] = m.regs[ln.a]])
          [] ln.op \in {"ADD", "SUB"} ->
                IF ~known(ln.b) \/ ~known(ln.c) THEN Fault(m)
                ELSE Forward([m EXCEPT !.regs =
                        Set(@, ln.a, IF ln.op = "ADD" THEN m.regs[ln.b] + m.regs[ln.c]
                                     ELSE m.regs[ln.b] - m.regs[ln.c])])
          [] ln.op = "CMP" ->
                IF ~known(ln.a) \/ (~IsImmediate(ln.b) /\ ~known(ln.b)) THEN Fault(m)
                ELSE LET right == IF IsImmediate(ln.b) THEN Immediate(ln.b)
                                  ELSE m.regs[ln.b]
                     IN  Forward([m EXCEPT !.flags =
                                    IF m.regs[ln.a] = right THEN "eq" ELSE "ne"])
          [] ln.op = "BNE" ->
                IF m.flags = "undefined" \/ LabelLines(code, ln.a) = {} THEN Fault(m)
                ELSE IF m.flags = "ne"
                THEN [m EXCEPT !.at = CHOOSE i \in LabelLines(code, ln.a) : TRUE]
                ELSE Forward(m)
          [] ln.op = "SWI" -> [m EXCEPT !.state = "exited"]
          [] OTHER -> Forward(m)

RECURSIVE RunFrom(_, _)
RunFrom(code, m) ==
    IF m.state # "running" THEN m
    ELSE IF m.at > Len(code) THEN [m EXCEPT !.state = "ran off"]
    ELSE RunFrom(code, Execute(code, m))

Run(code) == RunFrom(code, Boot(code))

(***************************************************************************)
(* What a source program means, read statement by statement from left to   *)
(* right: the value of every variable afterwards.  A variable is 0 until   *)
(* it is given a value; declaring a variable that exists leaves its value. *)
(***************************************************************************)
Value(env, n) == IF n \in DOMAIN env THEN env[n] ELSE 0

RECURSIVE Eval(_, _)
Eval(e, env) ==
    CASE e.k = "num" -> e.v
      [] e.k = "var" -> Value(env, e.n)
      [] e.k = "bin" ->
            IF e.op = <<"+">> THEN Eval(e.l, env) + Eval(e.r, env)
            ELSE Eval(e.l, env) - Eval(e.r, env)

RECURSIVE Meaning(_, _)
MeaningOf(s, env) ==
    CASE s.k = "decl" ->
            IF s.init = SNone THEN Set(env, s.n, Value(env, s.n))
            ELSE Set(env, s.n, Eval(s.init, env))
      [] s.k = "assign" -> Set(env, s.n, Eval(s.e, env))
      [] s.k = "if" ->
            IF Eval(s.l, env) = Eval(s.r, env) THEN Meaning(s.body, env) ELSE env

Meaning(stmts, env) ==
    IF stmts = <<>> THEN env ELSE Meaning(Tail(stmts), MeaningOf(Head(stmts), env))

\* the variable names a source program mentions
RECURSIVE ExprNames(_)
ExprNames(e) ==
    CASE e.k = "num" -> {}
      [] e.k = "var" -> {e.n}
      [] e.k = "bin" -> ExprNames(e.l) \cup ExprNames(e.r)

RECURSIVE Names(_)
StmtNames(s) ==
    CASE s.k = "decl" -> {s.n} \cup (IF s.init = SNone THEN {} ELSE ExprNames(s.init))
      [] s.k = "assign" -> {s.n} \cup ExprNames(s.e)
      [] s.k = "if" -> ExprNames(s.l) \cup ExprNames(s.r) \cup Names(s.body)

Names(stmts) == IF stmts = <<>> THEN {} ELSE StmtNames(Head(stmts)) \cup Names(Tail(stmts))

\* the number of if statements of a source program, nested ones included
RECURSIVE Ifs(_)
Ifs(stmts) ==
    IF stmts = <<>> THEN 0
    ELSE (IF Head(stmts).k = "if" THEN 1 + Ifs(Head(stmts).body) ELSE 0)
         + Ifs(Tail(stmts))

\* the compilation has written output.s
Compiled == impl = "final_cp" /\ pc = "done"

\* the places of the lines with this op in the code
Places(code, op) == {i \in 1..Len(code) : code[i].op = op}

(***************************************************************************)
(* Helpers of the lexer claims.                                            *)
(***************************************************************************)
\* the number of characters of the text that the tokens returned so far
\* have used up (the file lexers hold one more character as lookahead)
Consumed(variant, lx) ==
    IF variant = "final_cp" \/ ~lx.good THEN lx.position ELSE lx.position - 1

RECURSIVE Flatten(_)
Flatten(ss) == IF ss = <<>> THEN <<>> ELSE Head(ss) \o Flatten(Tail(ss))

RECURSIVE StripSpace(_)
StripSpace(text) ==
    IF text = <<>> THEN <<>>
    ELSE IF isspace(Head(text)) THEN StripSpace(Tail(text))
    ELSE <<Head(text)>> \o StripSpace(Tail(text))

TokenTexts(toks) == [i \in 1..Len(toks) |-> toks[i].text]

EOFCount(toks) == Cardinality({i \in 1..Len(toks) : toks[i].type = "TOKEN_EOF"})

\* the text not yet consumed, without its leading whitespace
RECURSIVE DropSpace(_)
DropSpace(text) ==
    IF text # <<>> /\ isspace(Head(text)) THEN DropSpace(Tail(text)) ELSE text

Rest == DropSpace(SubSeq(input, Consumed(impl, lexer) + 1, Len(input)))

(***************************************************************************)
(* C2: the texts of the tokens returned before EndOfInput, concatenated in *)
(* order, are the input text without its whitespace characters.            *)
(* lexer.cpp breaks it: its default case builds the Unknown token from the *)
(* character after the offending one.                                      *)
(***************************************************************************)
C2_TokenTextsReproduceInput ==
    pc # "lex" =>
        Flatten(TokenTexts(SubSeq(tokens, 1, Len(tokens) - 1))) = StripSpace(input)

(***************************************************************************)
(* C3: for an input of n characters EndOfInput is returned after at most   *)
(* n+1 calls: a call that does not return EndOfInput consumes at least one *)
(* character; a call made after EndOfInput returns EndOfInput again and    *)
(* moves nothing; the token list of the driver loop holds exactly one      *)
(* EndOfInput, its last element.                                           *)
(***************************************************************************)
C3_LexingTerminates ==
    /\ Len(tokens) <= Len(input) + 1
    /\ Consumed(impl, lexer) \in 0..Len(input)
    /\ pc = "lex" =>
        /\ EOFCount(tokens) = 0
        /\ LET r == getNextToken(impl, input, lexer) IN
            r.tok.type # "TOKEN_EOF" => Consumed(impl, r.st) > Consumed(impl, lexer)
    /\ pc # "lex" =>
        /\ EOFCount(tokens) = 1
        /\ tokens[Len(tokens)].type = "TOKEN_EOF"
        /\ LET r == getNextToken(impl, input, lexer) IN
            r.tok = Token("TOKEN_EOF", <<>>) /\ r.st = lexer

\* a text with whitespace and several tokens has been lexed to its end
C3_Witness ==
    /\ pc # "lex"
    /\ Len(input) = MaxLen
    /\ Len(tokens) = 3
    /\ \E i \in 1..Len(input) : isspace(input[i])

(***************************************************************************)
(* C10: at `!` followed by `=` the lexer returns one NotEqual token with   *)
(* text `!=` and consumes both characters; at `!` followed by anything     *)
(* else, or by the end of the input, it returns Unknown with text `!` and  *)
(* consumes only the `!`.                                                  *)
(* Only parser.cpp does so: final_cp.cpp and lexer.cpp have no case '!'.   *)
(***************************************************************************)
C10_BangEqualIsNotEqual ==
    (pc = "lex" /\ Rest # <<>> /\ Head(Rest) = "!") =>
        LET r == getNextToken(impl, input, lexer)
            at == Len(input) - Len(Rest)
        IN  IF Len(Rest) >= 2 /\ Rest[2] = "="
            THEN r.tok = Token("TOKEN_NOT_EQUAL", <<"!", "=">>)
                 /\ Consumed(impl, r.st) = at + 2
            ELSE r.tok = Token("TOKEN_UNKNOWN", <<"!">>)
                 /\ Consumed(impl, r.st) = at + 1

\* the kind the token of a single-character punctuator is to have
PunctuationKind(c) ==
    CASE c = "+" -> "TOKEN_PLUS"
      [] c = "-" -> "TOKEN_MINUS"
      [] c = "(" -> "TOKEN_LPAREN"
      [] c = ")" -> "TOKEN_RPAREN"
      [] c = "{" -> "TOKEN_LBRACE"
      [] c = "}" -> "TOKEN_RBRACE"
      [] c = ";" -> "TOKEN_SEMICOLON"

Punctuation == {"+", "-", "(", ")", "{", "}", ";"}

(***************************************************************************)
(* C21: each of + - ( ) { } ; yields one token of its own kind whose text  *)
(* is that character; any character that is not whitespace, a letter, a    *)
(* digit, = or ! or one of these yields one Unknown token whose text is    *)
(* exactly that character; in both cases exactly that one character is     *)
(* consumed.                                                               *)
(* lexer.cpp breaks it: ( and ) are returned with the brace kinds, and the *)
(* Unknown token carries the character after the offending one.            *)
(***************************************************************************)
C21_SingleCharacterTokens ==
    (pc = "lex" /\ Rest # <<>>
        /\ ~isalnum(Head(Rest)) /\ Head(Rest) \notin {"=", "!"}) =>
        LET r == getNextToken(impl, input, lexer)
            at == Len(input) - Len(Rest)
            c == Head(Rest)
        IN  /\ r.tok = Token(IF c \in Punctuation THEN PunctuationKind(c)
                                                   ELSE "TOKEN_UNKNOWN", <<c>>)
            /\ Consumed(impl, r.st) = at + 1

(***************************************************************************)
(* Helpers of the parser and generator claims.                             *)
(***************************************************************************)
\* the messages that name a terminator
Naming(terminator) ==
    CASE terminator = ";" -> {"Expected ';'", "Parse error: Expected ';' after declaration",
                              "Parse error: Expected ';' after assignment"}
      [] terminator = ")" -> {"Expected ')'", "Parse error: Expected ')'"}
      [] terminator = "}" -> {"Expected '}'", "Parse error: Expected '}'"}
      [] OTHER -> {}

\* the statement parser of each program on the tokens ahead
ParsedStatement ==
    IF impl = "lexer" THEN EarlyParseStatement(tokens, current)
    ELSE parseStatement(impl, tokens, current)

\* the tokens ahead start with `int x ;`
DeclarationAhead ==
    /\ current + 3 <= Len(tokens)
    /\ tokens[current + 1].type = "TOKEN_INT"
    /\ tokens[current + 2].type = "TOKEN_IDENTIFIER"
    /\ tokens[current + 3].type = "TOKEN_SEMICOLON"

\* the statement the generator is about to take is a declaration without
\* initializer
PlainDeclarationNext ==
    /\ impl = "final_cp"
    /\ pc = "body"
    /\ next < Len(ast.statements)
    /\ ast.statements[next + 1].kind = "VarDeclaration"
    /\ ast.statements[next + 1].initializer = Null

SlotLine(name) == Line(".word", name, <<"0">>, <<>>)

SlotLinesOf(code, name) == {i \in Places(code, ".word") : code[i].a = name}

NoBindings == [n \in {} |-> 0]

\* the data slots after the run are the variables of the source program
\* with the values its meaning gives them
RunAgreesWithMeaning ==
    LET m == Run(output)
        env == Meaning(source, NoBindings)
    IN  /\ m.state = "exited"
        /\ DOMAIN m.mem = Names(source)
        /\ \A n \in Names(source) : m.mem[n] = Value(env, n)

(***************************************************************************)
(* C1: in the generated text every data-slot line `name: .word 0` lies     *)
(* after the `.section .data` header and before the `.section .text`       *)
(* header, none after `.section .text` or `_start:`.                       *)
(* main emits the prelude and the postlude before it walks the tree, so    *)
(* every slot line comes after `_start:`.                                  *)
(***************************************************************************)
C1_SlotLinesInDataSection ==
    Compiled =>
        \A i \in Places(output, ".word") :
            /\ \E d \in Places(output, ".section .data") : d < i
            /\ \A t \in Places(output, ".section .text") \cup Places(output, "_start:") :
                i < t

(***************************************************************************)
(* C4: when a required terminator (`;`, `)` or `}`) is missing where the   *)
(* grammar expects it, parsing fails with an error whose message names     *)
(* that terminator, and no tree is returned.                               *)
(* Without the `}` of an if-body final_cp.cpp reports "Expected statement" *)
(* and parser.cpp returns the If node.                                     *)
(***************************************************************************)
C4_MissingTerminatorIsNamed ==
    (impl \in {"final_cp", "parser"} /\ omitted # "" /\ pc # "parse") =>
        /\ pc = "failed"
        /\ error \in Naming(omitted)
        /\ ast = Null

(***************************************************************************)
(* C5: `int x;` is parsed as a VarDeclaration without initializer, and     *)
(* generating code for it adds the slot line `x: .word 0` when x has no    *)
(* slot yet and nothing else: no store, no other instruction.              *)
(* The parser of lexer.cpp rejects it: its parseVarDeclaration requires    *)
(* `=` after the name.                                                     *)
(***************************************************************************)
C5_DeclarationWithoutInitializer ==
    /\ (pc = "parse" /\ DeclarationAhead) =>
        /\ ParsedStatement.ok
        /\ ParsedStatement.node =
              VarDeclaration(<<"i","n","t">>, tokens[current + 2].text, Null)
        /\ ParsedStatement.current = current + 3
    /\ PlainDeclarationNext =>
        LET name == ast.statements[next + 1].name
            after == generateAssembly(ast.statements[next + 1], generator).g
        IN  IF HasVariable(generator, name) THEN after = generator
            ELSE /\ after.assemblyCode = Append(generator.assemblyCode, SlotLine(name))
                 /\ after.registerCount = generator.registerCount
                 /\ after.labelCount = generator.labelCount
                 /\ HasVariable(after, name)

C7_IfBodyRunsWhenEqual ==
    (Compiled /\ Ifs(source) > 0) =>
        /\ RunAgreesWithMeaning
        /\ source = ExampleIf(5) => Run(output).mem[va] = 6
        /\ source = ExampleIf(3) => Run(output).mem[va] = 5

\* a compiled program whose if is skipped, with a body that would have
\* changed a slot
C7_Witness ==
    /\ Compiled
    /\ source = ExampleIf(3)
    /\ Places(output, "BNE") # {}
    /\ Run(output).state = "exited"

(***************************************************************************)
(* C8: the skip labels of any two if statements of one compilation,        *)
(* siblings or nested, are distinct, and each label handed out is defined  *)
(* (`Lk:`) exactly once in the output.                                     *)
(***************************************************************************)
C8_LabelsDistinct ==
    LET code == generator.assemblyCode IN
    /\ \A i, j \in Places(code, "label") : code[i].a = code[j].a => i = j
    /\ Compiled =>
        /\ generator.labelCount = Ifs(source)
        /\ Cardinality(Places(output, "label")) = Ifs(source)
        /\ \A k \in 0..(generator.labelCount - 1) :
            Cardinality(LabelLines(output, <<"L">> \o to_string(k))) = 1
        /\ \A i \in Places(output, "BNE") :
            Cardinality(LabelLines(output, output[i].a)) = 1

\* two sibling ifs, one of them with an if nested in its body
C8_Witness == Compiled /\ Cardinality(Places(output, "label")) >= 3

(***************************************************************************)
(* C9: after code generation every variable name that occurs in the        *)
(* program, declared or not and however often, has exactly one line        *)
(* `name: .word 0` in the output, and no other name has a slot line.       *)
(***************************************************************************)
C9_OneSlotPerName ==
    Compiled =>
        /\ \A n \in Names(source) : Cardinality(SlotLinesOf(output, n)) = 1
        /\ SlotNames(output) \subseteq Names(source)

\* a name declared twice and a name that is only used
C9_Witness ==
    /\ Compiled
    /\ Len(source) = 2
    /\ source[1] = SDecl(va, SNone)
    /\ source[2] \in {SDecl(va, SNone), SAssign(vb, SBin(<<"+">>, SVar(va), SNum(4)))}
    /\ Cardinality(Places(output, ".word")) = Cardinality(Names(source))

(***************************************************************************)
(* Helpers of the error claims.                                            *)
(***************************************************************************)
\* main: return 1 from the catch block, return 0 otherwise
ExitStatus == IF pc = "failed" THEN 1 ELSE 0

\* the place in the words of the source program of the terminator left out
OmittedAt ==
    CHOOSE i \in 1..Len(Words(source)) :
        /\ Words(source)[i] = <<omitted>>
        /\ input = Text(Without(Words(source), i))

(***************************************************************************)
(* C12: when the tokens reach EndOfInput inside an if-body before its      *)
(* closing `}`, the parse fails with a parse error; an if with an unclosed *)
(* body is never returned as an If node.                                   *)
(* parser.cpp ends the body loop at TOKEN_EOF and returns the If node.     *)
(***************************************************************************)
C12_UnclosedBodyIsAnError ==
    (impl \in {"final_cp", "parser"} /\ omitted = "}" /\ pc # "parse") =>
        /\ pc = "failed"
        /\ error # ""
        /\ program = <<>> \/ program[Len(program)].kind # "If"
        /\ ast = Null

(***************************************************************************)
(* C13: the first parse error aborts the compilation: no tree is returned, *)
(* not even for the statements parsed before the error, no token after the *)
(* error point is consumed, code generation is not started, nothing is     *)
(* written, and the run ends with a non-zero status.                       *)
(***************************************************************************)
C13_FirstErrorAborts ==
    (impl \in {"final_cp", "parser"} /\ pc = "failed") =>
        /\ ast = Null
        /\ error # ""
        /\ current < Len(tokens)
        /\ omitted = ";" => current = OmittedAt - 1
        /\ generator = NewGenerator
        /\ next = 0
        /\ output = <<>>
        /\ ExitStatus # 0
        /\ ~ENABLED NextParse

\* a statement has been parsed and the next one lacks its `;`
C13_Witness ==
    /\ pc = "failed"
    /\ impl = "final_cp"
    /\ omitted = ";"
    /\ Len(program) >= 1
    /\ current > 3

(***************************************************************************)
(* Helpers of the claims on the shape of the output.                       *)
(***************************************************************************)
\* the expression nodes and the If nodes of a tree
RECURSIVE ExprNodes(_)
RECURSIVE ExprNodesOfAll(_)
ExprNodes(node) ==
    CASE node.kind \in {"Number", "Identifier"} -> 1
      [] node.kind = "BinaryOp" -> 1 + ExprNodes(node.left) + ExprNodes(node.right)
      [] node.kind = "Assignment" -> ExprNodes(node.exp)
      [] node.kind = "VarDeclaration" ->
            IF node.initializer = Null THEN 0 ELSE ExprNodes(node.initializer)
      [] node.kind = "Block" -> ExprNodesOfAll(node.statements)
      [] node.kind = "If" -> ExprNodes(node.condition) + ExprNodes(node.thenBranch)
      [] OTHER -> 0

ExprNodesOfAll(nodes) ==
    IF nodes = <<>> THEN 0 ELSE ExprNodes(Head(nodes)) + ExprNodesOfAll(Tail(nodes))

RECURSIVE IfNodes(_)
RECURSIVE IfNodesOfAll(_)
IfNodes(node) ==
    CASE node.kind = "Block" -> IfNodesOfAll(node.statements)
      [] node.kind = "If" -> 1 + IfNodes(node.thenBranch)
      [] OTHER -> 0

IfNodesOfAll(nodes) ==
    IF nodes = <<>> THEN 0 ELSE IfNodes(Head(nodes)) + IfNodesOfAll(Tail(nodes))

\* the lines that write the result register of an expression node: MOV of
\* a Number (and of `==`), LDR of an Identifier, ADD and SUB of a BinaryOp
ResultLines(code) == {i \in 1..Len(code) : code[i].op \in {"MOV", "LDR", "ADD", "SUB"}}

RegisterNames(n) == {<<"R">> \o to_string(k) : k \in 0..(n - 1)}

\* the generation of the tree is under way or over, the epilogue not yet
\* emitted
Generating == impl = "final_cp" /\ pc = "body"

\* the names of the slot lines in the order of the lines
RECURSIVE SlotOrder(_)
SlotOrder(code) ==
    IF code = <<>> THEN <<>>
    ELSE IF Head(code).op = ".word" THEN <<Head(code).a>> \o SlotOrder(Tail(code))
    ELSE SlotOrder(Tail(code))

\* the variable names among the words of a program, each at its first place
RECURSIVE FirstReferences(_, _)
FirstReferences(words, seen) ==
    IF words = <<>> THEN <<>>
    ELSE LET w == Head(words) IN
         IF Word(w).type = "TOKEN_IDENTIFIER" /\ isalpha(w[1]) /\ w \notin seen
         THEN <<w>> \o FirstReferences(Tail(words), seen \cup {w})
         ELSE FirstReferences(Tail(words), seen)

\* the pairs of if statements of a source program one of which is inside
\* the other
RECURSIVE NestedPairs(_)
NestedPairs(stmts) ==
    IF stmts = <<>> THEN 0
    ELSE (IF Head(stmts).k = "if"
          THEN Ifs(Head(stmts).body) + NestedPairs(Head(stmts).body) ELSE 0)
         + NestedPairs(Tail(stmts))

\* the line of the label a branch goes to
Target(code, i) == CHOOSE j \in LabelLines(code, code[i].a) : TRUE

(***************************************************************************)
(* C16: every instruction of the output that loads from or stores to a     *)
(* variable's slot (`LDR r, [name]`, `STR r, [name]`) comes after that     *)
(* variable's line `name: .word 0`.                                        *)
(***************************************************************************)
C16_SlotDeclaredBeforeUse ==
    LET code == generator.assemblyCode IN
    /\ \A i \in Places(code, "LDR") \cup Places(code, "STR") :
        \E j \in 1..(i - 1) : code[j] = SlotLine(Address(code[i].b))
    /\ Compiled => output = generator.assemblyCode

\* a variable that is read and one that is assigned, neither declared
C16_Witness ==
    /\ Compiled
    /\ source = <<SAssign(vb, SBin(<<"+">>, SVar(va), SNum(4)))>>
    /\ Places(output, "LDR") # {}
    /\ Places(output, "STR") # {}

C20_SlotsInOrderOfFirstReference ==
    Compiled => SlotOrder(output) = FirstReferences(Words(source), {})

\* the variable names of a source program in the order in which the
\* generator comes to them: a declaration's name before its initializer, an
\* assignment's expression before its target
RECURSIVE ExprReferences(_)
ExprReferences(e) ==
    CASE e.k = "num" -> <<>>
      [] e.k = "var" -> <<e.n>>
      [] e.k = "bin" -> ExprReferences(e.l) \o ExprReferences(e.r)

RECURSIVE References(_)
StmtReferences(s) ==
    CASE s.k = "decl" ->
            <<s.n>> \o (IF s.init = SNone THEN <<>> ELSE ExprReferences(s.init))
      [] s.k = "assign" -> ExprReferences(s.e) \o <<s.n>>
      [] s.k = "if" -> ExprReferences(s.l) \o ExprReferences(s.r) \o References(s.body)

References(stmts) ==
    IF stmts = <<>> THEN <<>>
    ELSE StmtReferences(Head(stmts)) \o References(Tail(stmts))

(***************************************************************************)
(* C20 as the code has it: the slot lines stand in the order in which the  *)
(* generator first comes to the variables, statement by statement: the     *)
(* name of a declaration before its initializer, the variables of an       *)
(* assignment's right-hand side before its target.                         *)
(***************************************************************************)
C20_SlotsInOrderOfGeneration ==
    Compiled => SlotOrder(output) = FirstReferences(References(source), {})

\* `b = a + 4;` with neither declared: a gets its slot line before b
C20_Witness ==
    /\ Compiled
    /\ source = <<SAssign(vb, SBin(<<"+">>, SVar(va), SNum(4)))>>
    /\ SlotOrder(output) = <<va, vb>>

(***************************************************************************)
(* Helpers of the claim on the order of emission.                          *)
(***************************************************************************)
\* the lines generateAssembly of the node appends to the code of g
Emitted(node, g) ==
    LET after == generateAssembly(node, g).g IN
    SubSeq(after.assemblyCode, Len(g.assemblyCode) + 1, Len(after.assemblyCode))

\* the lines of a node are those of its parts, one part after the other,
\* and so for its parts
RECURSIVE InOrder(_, _)
RECURSIVE InOrderAll(_, _)
InOrder(node, g) ==
    LET e == Emitted(node, g) IN
    CASE node.kind = "BinaryOp" ->
            After(generateAssembly(node.left, g), LAMBDA l :
            After(generateAssembly(node.right, l.g), LAMBDA r :
            LET el == Emitted(node.left, g)
                er == Emitted(node.right, l.g)
                own == SubSeq(e, Len(el) + Len(er) + 1, Len(e))
            IN  /\ InOrder(node.left, g)
                /\ InOrder(node.right, l.g)
                /\ e = el \o er \o own
                /\ own # <<>>
                /\ \A k \in 1..Len(own) :
                    own[k].op \in {"ADD", "SUB", "CMP", "MOV", "MOVEQ"}
                /\ IF own[1].op = "CMP"
                   THEN own[1].a = l.reg /\ own[1].b = r.reg
                   ELSE own[1].b = l.reg /\ own[1].c = r.reg))
      [] node.kind = "Assignment" ->
            LET v == generateAssembly(node.exp, g)
                ev == Emitted(node.exp, g)
            IN  /\ InOrder(node.exp, g)
                /\ SubSeq(e, 1, Len(ev)) = ev
                /\ Len(e) > Len(ev)
                /\ e[Len(e)] = Line("STR", v.reg, Mem(node.identifier), <<>>)
                /\ \A k \in (Len(ev) + 1)..(Len(e) - 1) : e[k].op = ".word"
      [] node.kind = "VarDeclaration" ->
            node.initializer # Null =>
                LET d == declareVariable(g, node.name)
                    v == generateAssembly(node.initializer, d)
                    ed == SubSeq(d.assemblyCode, Len(g.assemblyCode) + 1,
                                 Len(d.assemblyCode))
                IN  /\ InOrder(node.initializer, d)
                    /\ e = ed \o Emitted(node.initializer, d)
                            \o <<Line("STR", v.reg, Mem(node.name), <<>>)>>
      [] node.kind = "Block" ->
            /\ InOrderAll(node.statements, g)
      [] node.kind = "If" ->
            After(generateAssembly(node.condition, g), LAMBDA c :
            LET ec == Emitted(node.condition, g)
                n == Len(ec)
            IN  /\ InOrder(node.condition, g)
                /\ Len(e) >= n + 3
                /\ SubSeq(e, 1, n) = ec
                /\ e[n + 1] = Line("CMP", c.reg, <<"#", "1">>, <<>>)
                /\ e[n + 2].op = "BNE"
                /\ e[Len(e)] = Line("label", e[n + 2].a, <<>>, <<>>)
                /\ After([c.g EXCEPT !.labelCount = @ + 1,
                                     !.assemblyCode = @ \o SubSeq(e, n + 1, n + 2)],
                         LAMBDA gb :
                           /\ SubSeq(e, n + 3, Len(e) - 1) = Emitted(node.thenBranch, gb)
                           /\ InOrder(node.thenBranch, gb)))
      [] OTHER -> TRUE

\* the lines of a block are those of its statements in their order
InOrderAll(statements, g) ==
    LET block == Block(statements) IN
    IF statements = <<>> THEN Emitted(block, g) = <<>>
    ELSE After(generateAssembly(Head(statements), g).g, LAMBDA first :
         /\ InOrder(Head(statements), g)
         /\ InOrderAll(Tail(statements), first)
         /\ Emitted(block, g) =
                Emitted(Head(statements), g) \o Emitted(Block(Tail(statements)), first))

(***************************************************************************)
(* C18: for every BinaryExpr the instructions of the left operand come     *)
(* before those of the right operand, and these before the operator's own; *)
(* for every Block the instructions of statement i come before those of    *)
(* statement i+1; for an If: the condition, the compare and branch, the    *)
(* body, the skip label.                                                   *)
(***************************************************************************)
C18_EmissionOrder ==
    /\ (Generating /\ next < Len(ast.statements)) =>
            InOrder(ast.statements[next + 1], generator)
    /\ Compiled =>
        After(generatePostlude(generatePrelude(NewGenerator)), LAMBDA start :
        /\ InOrder(ast, start)
        /\ output = generateEpilogue(generateAssembly(ast, start).g).assemblyCode)

\* an if with an if in its body after an assignment with nested operations
C18_Witness ==
    /\ Compiled
    /\ Len(source) = 2
    /\ source[1].k = "assign"
    /\ Cardinality(Places(output, "SUB")) >= 3
    /\ NestedPairs(source) >= 1

(***************************************************************************)
(* SpecNum: the three programs on programs with number literals at and     *)
(* beyond the largest int.                                                 *)
(***************************************************************************)
NumberTexts ==
    { <<"0">>, <<"7">>, <<"0","0","7">>,
      <<"2","1","4","7","4","8","3","6","4","7">>,
      <<"0","2","1","4","7","4","8","3","6","4","7">>,
      <<"2","1","4","7","4","8","3","6","4","8">>,
      <<"2","1","4","7","4","8","3","6","5","0">>,
      <<"4","2","9","4","9","6","7","2","9","6">>,
      <<"9","9","9","9","9","9","9","9","9","9","9">> }

\* the programs a number literal is put in, as words
NumberPrograms(n) ==
    { <<va, <<"=">>, n, <<";">>>>,
      <<<<"i","n","t">>, va, <<"=">>, n, <<";">>>>,
      <<va, <<"=">>, <<"1">>, <<"+">>, n, <<";">>>>,
      <<vb, <<"=">>, <<"3">>, <<";">>, va, <<"=">>, vb, <<"-">>, n, <<";">>>>,
      <<<<"i","f">>, <<"(">>, va, <<"=","=">>, n, <<")">>, <<"{">>,
        va, <<"=">>, <<"1">>, <<";">>, <<"}">>>> }

InitNum ==
    /\ Fresh
    /\ source = <<>>
    /\ omitted = ""
    /\ \E n \in NumberTexts : \E words \in NumberPrograms(n) : input = Text(words)
    /\ lexer = NewLexer(impl, input)
    /\ tokens = <<>>
    /\ pc = "lex"

NextNum ==
    \/ Tokenize
    \/ ParseStatement
    \/ ParseReturn
    \/ GeneratePrelude
    \/ GeneratePostlude
    \/ GenerateStatement
    \/ GenerateEpilogue
    \/ WriteOutput

SpecNum == InitNum /\ [][NextNum]_vars

(***************************************************************************)
(* Helpers of the claim on number literals.                                *)
(***************************************************************************)
RECURSIVE StripZeros(_)
StripZeros(text) ==
    IF Len(text) > 1 /\ Head(text) = "0" THEN StripZeros(Tail(text)) ELSE text

\* of two digit texts of the same length the first denotes the larger value
RECURSIVE Larger(_, _)
Larger(x, y) ==
    IF x = <<>> THEN FALSE
    ELSE IF Head(x) # Head(y) THEN DigitValue(Head(x)) > DigitValue(Head(y))
    ELSE Larger(Tail(x), Tail(y))

\* the digit text denotes a value larger than the largest int
TooBig(text) ==
    LET t == StripZeros(text)
        max == to_string(INT_MAX)
    IN  Len(t) > Len(max) \/ (Len(t) = Len(max) /\ Larger(t, max))

NumberTokens == {i \in 1..Len(tokens) : tokens[i].type = "TOKEN_NUMBER"}

\* the values of the Number nodes of a tree
RECURSIVE NumberValues(_)
RECURSIVE NumberValuesOfAll(_)
NumberValues(node) ==
    CASE node.kind = "Number" -> {node.value}
      [] node.kind = "BinaryOp" -> NumberValues(node.left) \cup NumberValues(node.right)
      [] node.kind = "Assignment" -> NumberValues(node.exp)
      [] node.kind = "VarDeclaration" ->
            IF node.initializer = Null THEN {} ELSE NumberValues(node.initializer)
      [] node.kind = "Block" -> NumberValuesOfAll(node.statements)
      [] node.kind = "If" ->
            NumberValues(node.condition) \cup NumberValues(node.thenBranch)
      [] OTHER -> {}

NumberValuesOfAll(nodes) ==
    IF nodes = <<>> THEN {}
    ELSE NumberValues(Head(nodes)) \cup NumberValuesOfAll(Tail(nodes))

(***************************************************************************)
(* C14: a Number token whose digits denote a value larger than the largest *)
(* int makes the compilation fail: error outcome, no tree, no output; no   *)
(* Number node holding a truncated or wrapped value is ever created.       *)
(***************************************************************************)
C14_NumberOutOfRangeFails ==
    /\ (impl \in {"final_cp", "parser"} /\ pc \notin {"lex", "parse"}
            /\ \E i \in NumberTokens : TooBig(tokens[i].text)) =>
        /\ pc = "failed"
        /\ error # ""
        /\ ExitStatus # 0
        /\ ast = Null
        /\ generator = NewGenerator
        /\ output = <<>>
    /\ \A v \in NumberValuesOfAll(program) \cup NumberValues(ast) :
        \E i \in NumberTokens :
            ~TooBig(tokens[i].text) /\ to_string(v) = StripZeros(tokens[i].text)

\* a statement has been parsed, the next one holds INT_MAX + 1
C14_Witness ==
    /\ impl = "final_cp"
    /\ pc = "failed"
    /\ Len(program) = 1
    /\ \E i \in NumberTokens :
        tokens[i].text = <<"2","1","4","7","4","8","3","6","4","8">>

(***************************************************************************)
(* SpecExpr: the expression parsers of the three programs on the tokens of *)
(* expressions.  An expression tree is written with the parentheses its    *)
(* grouping needs when `+` and `-` bind tighter than `==` and `!=` and     *)
(* operators of one level group to the left.                               *)
(***************************************************************************)
vd == <<"d">>

IsEquality(op) == op \in {<<"=","=">>, <<"!","=">>}

\* the operand is written in parentheses: on the left an equality under an
\* additive operator, on the right any operation not tighter than the operator
NeedsParentheses(op, operand, right) ==
    /\ operand.k = "bin"
    /\ IF right THEN IsEquality(operand.op) \/ ~IsEquality(op)
       ELSE IsEquality(operand.op) /\ ~IsEquality(op)

RECURSIVE GroupedWords(_)
GroupedWords(e) ==
    LET part(operand, right) ==
            IF NeedsParentheses(e.op, operand, right)
            THEN <<<<"(">>>> \o GroupedWords(operand) \o <<<<")">>>>
            ELSE GroupedWords(operand)
    IN  CASE e.k = "num" -> <<to_string(e.v)>>
          [] e.k = "var" -> <<e.n>>
          [] e.k = "bin" -> part(e.l, FALSE) \o <<e.op>> \o part(e.r, TRUE)

\* the tree the parser is to build for an expression
RECURSIVE Tree(_)
Tree(e) ==
    CASE e.k = "num" -> Number(e.v)
      [] e.k = "var" -> Identifier(e.n)
      [] e.k = "bin" -> BinaryOp(e.op, Tree(e.l), Tree(e.r))

Operators == {<<"+">>, <<"-">>, <<"=","=">>, <<"!","=">>}
Operands == {SVar(va), SNum(1)}
Operations(parts) == {SBin(op, l, r) : op \in Operators, l \in parts, r \in parts}

\* the expressions of the documentation of the grouping
GroupingExamples ==
    { SBin(<<"-">>, SBin(<<"-">>, SVar(va), SVar(vb)), SVar(vc)),
      SBin(<<"=","=">>, SBin(<<"=","=">>, SVar(va), SVar(vb)), SVar(vc)),
      SBin(<<"=","=">>, SBin(<<"+">>, SVar(va), SVar(vb)),
                        SBin(<<"-">>, SVar(vc), SVar(vd))) }

Expressions ==
    Operands \cup Operations(Operands) \cup Operations(Operands \cup Operations(Operands))
        \cup GroupingExamples

InitExpr ==
    /\ Fresh
    /\ \E e \in Expressions : source = <<e>> /\ input = Text(GroupedWords(e))
    /\ omitted = ""
    /\ LET r == DriverLoop(impl, input, NewLexer(impl, input), <<>>) IN
        lexer = r.lexer /\ tokens = r.tokens
    /\ pc = "expression"

\* parseExpression called on the tokens
ParseExpressionCall ==
    /\ pc = "expression"
    /\ LET r == IF impl = "lexer" THEN EarlyParseExpression(tokens, current)
                ELSE parseExpression(impl, tokens, current)
       IN  /\ current' = r.current
           /\ IF r.ok
              THEN ast' = r.node /\ pc' = "parsed" /\ UNCHANGED error
              ELSE error' = r.msg /\ pc' = "failed" /\ UNCHANGED ast
    /\ UNCHANGED <<impl, source, omitted, input, lexer, tokens, program, generator,
                   next, output>>

NextExpr == ParseExpressionCall

SpecExpr == InitExpr /\ [][NextExpr]_vars

(***************************************************************************)
(* C15: the parser builds the tree in which `+` and `-` bind tighter than  *)
(* `==` and `!=` and operators of one level group to the left: `a - b - c` *)
(* is ((a - b) - c), `a == b == c` is ((a == b) == c), `a + b == c - d` is *)
(* ((a + b) == (c - d)); parentheses override the grouping.                *)
(* parseExpression of lexer.cpp has one level for `+`, `-` and `==` and no *)
(* parentheses; final_cp.cpp has no `!=`.                                  *)
(***************************************************************************)
C15_PrecedenceAndAssociativity ==
    pc # "expression" =>
        /\ pc = "parsed"
        /\ ast = Tree(source[1])
        /\ current = Len(tokens) - 1

(***************************************************************************)
(* SpecGen: BinaryOp::generateAssembly of final_cp.cpp on comparison nodes *)
(* with a fresh generator.                                                 *)
(***************************************************************************)
ComparisonOperands ==
    { Number(0), Number(1), Number(2), Identifier(va),
      BinaryOp(<<"+">>, Number(1), Number(1)),
      BinaryOp(<<"-">>, Number(2), Identifier(va)) }

Comparisons ==
    { BinaryOp(op, l, r) :
        op \in {<<"=","=">>, <<"!","=">>}, l \in ComparisonOperands,
        r \in ComparisonOperands }

InitGen ==
    /\ impl = "final_cp"
    /\ source = <<>>
    /\ omitted = ""
    /\ input = <<>>
    /\ lexer = NewLexer(impl, input)
    /\ tokens = <<>>
    /\ current = 0
    /\ program = <<>>
    /\ ast \in Comparisons
    /\ error = ""
    /\ generator = NewGenerator
    /\ next = 0
    /\ output = <<>>
    /\ pc = "comparison"

\* ast->generateAssembly(generator) on the comparison; output holds the
\* code of the generator afterwards
GenerateComparison ==
    /\ pc = "comparison"
    /\ generator' = generateAssembly(ast, generator).g
    /\ output' = generator'.assemblyCode
    /\ pc' = "generated"
    /\ UNCHANGED <<impl, source, omitted, input, lexer, tokens, current, program,
                   ast, error, next>>

NextGen == GenerateComparison

SpecGen == InitGen /\ [][NextGen]_vars

\* the value of an expression node when every slot holds 0
RECURSIVE NodeValue(_)
NodeValue(node) ==
    CASE node.kind = "Number" -> node.value
      [] node.kind = "Identifier" -> 0
      [] node.kind = "BinaryOp" ->
            IF node.op = <<"+">> THEN NodeValue(node.left) + NodeValue(node.right)
            ELSE NodeValue(node.left) - NodeValue(node.right)

(***************************************************************************)
(* C11: for a BinaryExpr with `==` or `!=` the generator emits a compare   *)
(* of the two operand registers and then instructions that write 1 or 0    *)
(* into the new result register: for `==` 1 exactly when the operands are  *)
(* equal, for `!=` 1 exactly when they differ; the result register is      *)
(* never returned unwritten.                                               *)
(* BinaryOp::generateAssembly has no branch for `!=`: it emits nothing and *)
(* returns a register no instruction writes.                               *)
(***************************************************************************)
C11_ComparisonMaterializesBoolean ==
    pc = "generated" =>
        LET whole == generateAssembly(ast, NewGenerator)
            l == generateAssembly(ast.left, NewGenerator)
            r == generateAssembly(ast.right, l.g)
            m == Run(output)
            equal == NodeValue(ast.left) = NodeValue(ast.right)
        IN  /\ whole.g = generator
            /\ whole.reg \notin {l.reg, r.reg}
            /\ \E i \in Places(output, "CMP") :
                /\ output[i].a = l.reg /\ output[i].b = r.reg
                /\ i < Len(output)
                /\ \A j \in (i + 1)..Len(output) : output[j].a = whole.reg
            /\ m.state = "ran off"
            /\ whole.reg \in DOMAIN m.regs
            /\ m.regs[whole.reg] =
                    IF ast.op = <<"=","=">> THEN (IF equal THEN 1 ELSE 0)
                    ELSE (IF equal THEN 0 ELSE 1)

(***************************************************************************)
(* SpecNames: the three programs on programs whose variables have names of *)
(* the form the generator gives to its labels and registers.  An           *)
(* identifier is a letter followed by letters and digits, so L0 and R0 are *)
(* names a program may use.                                                *)
(***************************************************************************)
vL0 == <<"L", "0">>
vR0 == <<"R", "0">>

SymbolNames == {va, vL0, vR0}

SymbolStmts ==
    UNION { { SDecl(n, SNone),
              SAssign(n, SBin(<<"+">>, SVar(va), SNum(1))),
              SIf(SVar(va), SNum(1), <<SAssign(n, SNum(5))>>) } : n \in SymbolNames }

SymbolPrograms == UNION {[1..k -> SymbolStmts] : k \in 0..MaxStmts}

InitNames ==
    /\ Fresh
    /\ source \in SymbolPrograms
    /\ omitted = ""
    /\ input = Text(Words(source))
    /\ lexer = NewLexer(impl, input)
    /\ tokens = <<>>
    /\ pc = "lex"

NextNames ==
    \/ Tokenize
    \/ ParseStatement
    \/ ParseReturn
    \/ GeneratePrelude
    \/ GeneratePostlude
    \/ GenerateStatement
    \/ GenerateEpilogue
    \/ WriteOutput

SpecNames == InitNames /\ [][NextNames]_vars

\* the lines that define a symbol: `Lk:` and `name: .word 0`
SymbolLines(code) == Places(code, "label") \cup Places(code, ".word")

(***************************************************************************)
(* C22: all symbol-definition lines of the output (label lines and slot    *)
(* lines) define pairwise distinct symbols: no skip label has the name of  *)
(* a variable's slot, and no register name handed out is the name of a     *)
(* variable's slot.                                                        *)
(* The generator forms Lk and Rk from its counters and takes slot names    *)
(* from the source as they are: a variable L0 or R0 breaks it.             *)
(***************************************************************************)
C22_SymbolsDistinct ==
    Compiled =>
        /\ \A i, j \in SymbolLines(output) : output[i].a = output[j].a => i = j
        /\ RegisterNames(generator.registerCount) \cap SlotNames(output) = {}

(***************************************************************************)
(* SpecTokens: the three parsers on token lists that end in TOKEN_EOF,     *)
(* well formed or not: every list of at most MaxLen tokens, and the token  *)
(* lists of whole programs with one token replaced by any other or left    *)
(* out.                                                                    *)
(***************************************************************************)
TokenKinds ==
    { Token("TOKEN_INT", <<"i","n","t">>), Token("TOKEN_IF", <<"i","f">>),
      Token("TOKEN_IDENTIFIER", va), Token("TOKEN_NUMBER", <<"1">>),
      Token("TOKEN_ASSIGN", <<"=">>), Token("TOKEN_EQUAL", <<"=","=">>),
      Token("TOKEN_NOT_EQUAL", <<"!","=">>),
      Token("TOKEN_PLUS", <<"+">>), Token("TOKEN_MINUS", <<"-">>),
      Token("TOKEN_LPAREN", <<"(">>), Token("TOKEN_RPAREN", <<")">>),
      Token("TOKEN_LBRACE", <<"{">>), Token("TOKEN_RBRACE", <<"}">>),
      Token("TOKEN_SEMICOLON", <<";">>), Token("TOKEN_UNKNOWN", <<"@">>) }

\* the programs whose token lists are altered
BasePrograms ==
    { ExampleArith, ExampleIf(5),
      << SDecl(vb, SBin(<<"+">>, SVar(va), SNum(1))),
         SIf(SVar(vb), SBin(<<"+">>, SVar(va), SNum(4)),
             << SDecl(vc, SNone), Inc,
                SIf(SVar(va), SNum(1), <<SAssign(vb, SNum(5))>>) >>) >> }

\* the tokens of a program but the closing TOKEN_EOF
TokensOf(stmts) ==
    LET text == Text(Words(stmts))
        all == DriverLoop("parser", text, NewLexer("parser", text), <<>>).tokens
    IN  SubSeq(all, 1, Len(all) - 1)

\* a token list with one token replaced, or left out
Altered(toks) ==
    {toks} \cup
    { [toks EXCEPT ![i] = t] : i \in 1..Len(toks), t \in TokenKinds } \cup
    { SubSeq(toks, 1, i - 1) \o SubSeq(toks, i + 1, Len(toks)) : i \in 1..Len(toks) }

TokenLists ==
    (UNION {[1..k -> TokenKinds] : k \in 0..MaxLen})
        \cup UNION {Altered(TokensOf(p)) : p \in BasePrograms}

InitTokens ==
    /\ Fresh
    /\ source = <<>>
    /\ omitted = ""
    /\ input = <<>>
    /\ lexer = NewLexer(impl, input)
    /\ \E toks \in TokenLists : tokens = Append(toks, Token("TOKEN_EOF", <<>>))
    /\ pc = "parse"

NextTokens ==
    \/ ParseStatement
    \/ ParseReturn
    \/ EarlyParseCall

SpecTokens == InitTokens /\ [][NextTokens]_vars

(***************************************************************************)
(* Helpers of the claim on the termination of the parser.                  *)
(***************************************************************************)
TokenTypes == {t.type : t \in TokenKinds}

\* the places of the token list before its TOKEN_EOF
Cursors == 0..(Len(tokens) - 2)

\* a call made at cur leaves the cursor at cur or after it, on a token
Within(r, cur) == r.current \in cur..(Len(tokens) - 1)

\* match moves the cursor by one when it succeeds, and then the token
\* before the cursor is the one matched; it leaves the cursor otherwise
MatchMoves(cur) ==
    \A type \in TokenTypes :
        IF impl = "lexer"
        THEN LET m == EarlyMatch(tokens, cur, type) IN
             IF m.ok THEN m.current = cur + 1 /\ tokens[m.current].type = type
             ELSE m.current = cur
        ELSE LET m == match(tokens, cur, type) IN
             IF m.ok THEN m.current = cur + 1 /\ tokens[m.current].type = type
             ELSE m.current = cur

\* a statement parsed at cur takes at least one token
StatementMoves(cur) ==
    LET r == IF impl = "lexer" THEN EarlyParseStatement(tokens, cur)
             ELSE parseStatement(impl, tokens, cur)
    IN  Within(r, cur) /\ (r.ok => r.current > cur)

\* the if-body loop entered at cur: it returns without a token taken only
\* in parser.cpp at the end of the input
IfBodyMoves(cur) ==
    LET r == IF impl = "lexer" THEN EarlyIfBodyLoop(tokens, <<>>, cur)
             ELSE IfBodyLoop(impl, tokens, <<>>, cur)
    IN  /\ Within(r, cur)
        /\ (r.ok /\ r.current = cur) =>
                (impl = "parser" /\ tokens[cur + 1].type = "TOKEN_EOF")

\* an operator loop entered at cur with its operators ops: a turn takes
\* the operator and an operand
LoopMoves(r, cur, ops) ==
    /\ Within(r, cur)
    /\ r.ok => IF tokens[cur + 1].type \in ops THEN r.current >= cur + 2
               ELSE r.current = cur

OperatorLoopsMove(cur) ==
    IF impl = "lexer"
    THEN LoopMoves(EarlyExpressionLoop(tokens, Number(0), cur), cur,
                   {"TOKEN_PLUS", "TOKEN_MINUS", "TOKEN_EQUAL"})
    ELSE /\ LoopMoves(AdditiveLoop(impl, tokens, Number(0), cur), cur,
                      {"TOKEN_PLUS", "TOKEN_MINUS"})
         /\ LoopMoves(EqualityLoop(impl, tokens, Number(0), cur), cur,
                      EqualityOps(impl))

\* the parser is at work or has ended, on a list that ends in TOKEN_EOF
Parsing ==
    /\ tokens # <<>>
    /\ tokens[Len(tokens)].type = "TOKEN_EOF"
    /\ pc \in {"parse", "failed", "prelude", "done"}

(***************************************************************************)
(* C23: on a token list that ends in EndOfInput the parser terminates: the *)
(* cursor never decreases and never exceeds the token count; every turn of *)
(* the program loop, of the if-body loop and of the operator loops takes   *)
(* at least one token or raises an error; the token before the cursor is   *)
(* read only after a successful match, when the cursor is at least 1.      *)
(***************************************************************************)
C23_ParserTerminates ==
    /\ [](Parsing =>
            /\ current \in 0..(Len(tokens) - 1)
            /\ Len(program) <= current
            /\ \A cur \in Cursors \cup {Len(tokens) - 1} :
                /\ MatchMoves(cur)
                /\ StatementMoves(cur)
                /\ IfBodyMoves(cur)
                /\ OperatorLoopsMove(cur))
    /\ [][/\ current' >= current
          /\ (pc = "parse" /\ pc' = "parse") => current' > current
          /\ pc \in {"failed", "prelude", "done"} => pc' = pc]_vars

\* a whole program has been parsed: several statements, an if with two
\* statements and an if in its body, operations in the expressions
C23_Witness ==
    /\ impl = "final_cp"
    /\ pc = "prelude"
    /\ Len(program) = 2
    /\ program[2].kind = "If"
    /\ Len(program[2].thenBranch.statements) = 3
    /\ current = Len(tokens) - 1

(***************************************************************************)
(* C24: a token list that holds an Unknown token is rejected by the parser *)
(* with a parse error: no production takes an Unknown token, so no tree is *)
(* produced.  (final_cp.cpp and parser.cpp, whose program loop runs to the *)
(* end of the list.)                                                       *)
(***************************************************************************)
HasUnknown == \E i \in 1..Len(tokens) : tokens[i].type = "TOKEN_UNKNOWN"

C24_UnknownIsRejected ==
    (impl \in {"final_cp", "parser"} /\ HasUnknown) =>
        /\ ast = Null
        /\ pc \in {"parse", "failed"}
        /\ pc = "failed" => error # ""
        /\ \A i \in 1..current : tokens[i].type # "TOKEN_UNKNOWN"
        /\ ~ENABLED ParseReturn

\* statements were parsed before the Unknown token was met
C24_Witness ==
    /\ impl = "final_cp"
    /\ HasUnknown
    /\ pc = "failed"
    /\ Len(program) >= 2
    /\ current > 6
    /\ tokens[current + 1].type = "TOKEN_UNKNOWN"
====
